---- MODULE Spec2Model ----
(***************************************************************************)
(* Contact Integrity System - interceptor service.                         *)
(*                                                                         *)
(* Numbers.  risk scores, weights and thresholds are JavaScript doubles in *)
(* the source.  Every score calculateRiskScore can produce is a multiple   *)
(* of 1/30000 (weights are hundredths, the factors are 0.85, 0.7/3 and     *)
(* 0.10), so a score s is represented by the integer s * ScoreScale.       *)
(* The thresholds drawn below are values at which the double comparison    *)
(* and the exact comparison agree for every score.                         *)
(*                                                                         *)
(* Content.  A string content is represented by its length and, for each   *)
(* pattern category, the number of distinct trimmed substrings the         *)
(* category's regular expressions match in it (what scanPatterns collects  *)
(* in its per-category Set).                                               *)
(***************************************************************************)
EXTENDS Integers, Sequences, FiniteSets, TLC

VARIABLES
  circuitBreaker,  \* CircuitBreaker: state, failureCount, successCount, lastFailureTime, config
  now,             \* Date.now()
  env,             \* process.env, the four tunables
  cachedConfig,    \* config.ts cachedConfig
  handlers,        \* the handleMessage call of each frame received so far
  sent,            \* frames written to the client socket, in order
  emitCalls,       \* calls of emitter.emitAsync, in order
  connected,       \* AsyncEmitter.connected
  pending,         \* XADD commands issued and not yet answered
  stream,          \* the cis:messages stream
  scMessage, scConfig, scFault, scOutcome, scResult,
  calls,           \* the circuitBreaker.execute call of each caller so far
  streak,          \* outcomes recorded in a row: failures, successes
  lastOp,          \* the last operation performed on the breaker
  resets,          \* number of reset() calls so far
  wss,             \* InterceptorService.wss is not null
  httpServer,      \* the health server: not created, listening, or closed
  health,          \* the last response to GET /health
  loaded,          \* what the last getConfig() call returned or threw
  emitter,         \* AsyncEmitter: redis, reconnectTimer, its disconnect() calls
  proc             \* the process: its exit status and the signal handlers run

serviceVars == <<circuitBreaker, now, env, cachedConfig, handlers, sent,
                 emitCalls, connected, pending, stream>>

scorerVars == <<scMessage, scConfig, scFault, scOutcome, scResult>>

breakerVars == <<calls, streak, lastOp, resets>>

adminVars == <<wss, httpServer, health, loaded>>

lifeVars == <<emitter, proc>>

vars == <<serviceVars, scorerVars, breakerVars, adminVars, lifeVars>>

(* ---------------------------------------------------------------------- *)
(* Bounds                                                                  *)
(* ---------------------------------------------------------------------- *)
MaxCount == 4
MaxLen == 1
MaxFrames == 2
MaxTicks == 1
MaxCalls == 4
MaxResets == 1
MaxAdvance == 1
MaxPending == 2
MaxFailures == 3
MaxSignals == 2

(* ---------------------------------------------------------------------- *)
(* Generic helpers                                                         *)
(* ---------------------------------------------------------------------- *)
Max(a, b) == IF a >= b THEN a ELSE b
Min(a, b) == IF a <= b THEN a ELSE b

Undefined == "undefined"

(* ---------------------------------------------------------------------- *)
(* interceptor.ts : pattern scorer                                         *)
(* ---------------------------------------------------------------------- *)
ScoreScale == 30000

Categories == {"phone", "email", "url", "social", "obfuscation"}

CategoryOrder == <<"phone", "email", "url", "social", "obfuscation">>

\* variant: email weighted 0.70
PATTERN_WEIGHTS_lowEmail ==
  [c \in {"phone", "email", "url", "social", "obfuscation"} |->
     CASE c = "phone" -> 85
       [] c = "email" -> 70
       [] c = "url" -> 50
       [] c = "social" -> 40
       [] c = "obfuscation" -> 15]

\* weights in hundredths
PATTERN_WEIGHTS ==
  [c \in Categories |->
     CASE c = "phone" -> 85
       [] c = "email" -> 80
       [] c = "url" -> 50
       [] c = "social" -> 40
       [] c = "obfuscation" -> 15]

\* one PatternMatch per category with at least one distinct match, in the
\* order phone, email, url, social, obfuscation
RECURSIVE scanFrom(_, _)
scanFrom(hits, i) ==
  IF i > Len(CategoryOrder) THEN <<>>
  ELSE LET c == CategoryOrder[i]
       IN  (IF hits[c] > 0 THEN <<[type |-> c, count |-> hits[c]]>> ELSE <<>>)
           \o scanFrom(hits, i + 1)

scanPatterns(content) == scanFrom(content.hits, 1)

RECURSIVE maxWeightOf(_)
maxWeightOf(matches) ==
  IF matches = <<>> THEN 0
  ELSE Max(PATTERN_WEIGHTS[Head(matches).type], maxWeightOf(Tail(matches)))

\* sum of weight * min(count, 3), in units of 1/300
RECURSIVE totalContributionOf(_)
totalContributionOf(matches) ==
  IF matches = <<>> THEN 0
  ELSE PATTERN_WEIGHTS[Head(matches).type] * Min(Head(matches).count, 3)
       + totalContributionOf(Tail(matches))

\* variant: the score is not capped at 1.0
calculateRiskScore_uncapped(matches) ==
  IF Len(matches) = 0 THEN 0
  ELSE Max(maxWeightOf(matches) * 255, totalContributionOf(matches) * 70)
       + (IF Len(matches) > 1 THEN 3000 * (Len(matches) - 1) ELSE 0)

calculateRiskScore(matches) ==
  IF Len(matches) = 0 THEN 0
  ELSE LET maxWeight == maxWeightOf(matches)
           totalContribution == totalContributionOf(matches)
           multiTypeBoost == IF Len(matches) > 1
                             THEN 3000 * (Len(matches) - 1) ELSE 0
           score == Max(maxWeight * 255, totalContribution * 70)
                    + multiTypeBoost
       IN  Min(score, ScoreScale)

LabelOf(type) ==
  CASE type = "phone" -> "contact_info_phone"
    [] type = "email" -> "contact_info_email"
    [] type = "url" -> "external_link"
    [] type = "social" -> "social_platform_mention"
    [] type = "obfuscation" -> "obfuscation_detected"

generateLabels(matches) ==
  [i \in 1..Len(matches) |-> LabelOf(matches[i].type)]

HasType(matches, t) == \E i \in 1..Len(matches) : matches[i].type = t

NudgeContact == "Sharing personal contact information may violate platform policies and put you at risk. Please keep conversations on the platform."
NudgeSocial == "We noticed you're trying to move the conversation off-platform. For your safety, please continue chatting here."
NudgeGeneric == "This message may contain content that violates our community guidelines. Please review before sending."

NudgeLow == 12000
NudgeHigh == 19500

generateNudgeMessage(riskScore, matches) ==
  IF riskScore < NudgeLow \/ riskScore >= NudgeHigh THEN Undefined
  ELSE IF HasType(matches, "phone") \/ HasType(matches, "email") THEN NudgeContact
  ELSE IF HasType(matches, "social") THEN NudgeSocial
  ELSE NudgeGeneric

\* the list joined with ", " in the block reason
blockReasons(matches) ==
  (IF HasType(matches, "phone") THEN <<"phone number">> ELSE <<>>)
  \o (IF HasType(matches, "email") THEN <<"email address">> ELSE <<>>)
  \o (IF HasType(matches, "url") THEN <<"external link">> ELSE <<>>)
  \o (IF HasType(matches, "social") THEN <<"social media reference">> ELSE <<>>)

RECURSIVE Join(_)
Join(parts) ==
  IF Len(parts) = 0 THEN ""
  ELSE IF Len(parts) = 1 THEN parts[1]
  ELSE parts[1] \o ", " \o Join(Tail(parts))

\* variant: no text when no category contributes a reason
generateBlockReason_emptyDefault(matches) ==
  IF Len(blockReasons(matches)) = 0 THEN ""
  ELSE "Message blocked: detected " \o Join(blockReasons(matches))
       \o ". Keep conversations on the platform for your safety."

generateBlockReason(matches) ==
  LET reasons == blockReasons(matches)
  IN  IF Len(reasons) = 0
      THEN "Message blocked due to potential policy violation"
      ELSE "Message blocked: detected " \o Join(reasons)
           \o ". Keep conversations on the platform for your safety."

(* ---------------------------------------------------------------------- *)
(* config.ts : configuration loader                                        *)
(* ---------------------------------------------------------------------- *)
\* a JavaScript number: an integer of the model, or NaN
Num(n) == [nan |-> FALSE, v |-> n]
NaN == [nan |-> TRUE, v |-> 0]

\* comparisons on doubles: false as soon as one side is NaN
NumLt(a, b) == ~a.nan /\ ~b.nan /\ a.v < b.v
NumGt(a, b) == ~a.nan /\ ~b.nan /\ a.v > b.v
NumGe(a, b) == ~a.nan /\ ~b.nan /\ a.v >= b.v

\* an environment variable: unset (or empty), or the number that
\* parseFloat / parseInt makes of its text (NaN when it does not parse)
Unset == [set |-> FALSE, num |-> Num(0)]
EnvNum(n) == [set |-> TRUE, num |-> Num(n)]
EnvNaN == [set |-> TRUE, num |-> NaN]

DefaultSyncThreshold == 19500
DefaultMaxMessageLength == 10000
DefaultBreakerThreshold == 5
DefaultBreakerResetMs == 30000
MinBreakerResetMs == 1000

ConfigError == [error |-> TRUE]

\* process.env.X || "default", parsed
EnvOr(x, default) == IF x.set THEN x.num ELSE Num(default)

loadConfig(e) ==
  LET config == [sync_threshold |-> EnvOr(e.SYNC_THRESHOLD, DefaultSyncThreshold),
                 circuit_breaker_threshold |->
                   EnvOr(e.CIRCUIT_BREAKER_THRESHOLD, DefaultBreakerThreshold),
                 circuit_breaker_reset_ms |->
                   EnvOr(e.CIRCUIT_BREAKER_RESET_MS, DefaultBreakerResetMs),
                 max_message_length |->
                   EnvOr(e.MAX_MESSAGE_LENGTH, DefaultMaxMessageLength)]
  IN  IF NumLt(config.sync_threshold, Num(0))
         \/ NumGt(config.sync_threshold, Num(ScoreScale))
        THEN ConfigError
      ELSE IF NumLt(config.circuit_breaker_threshold, Num(1)) THEN ConfigError
      ELSE IF NumLt(config.circuit_breaker_reset_ms, Num(MinBreakerResetMs))
        THEN ConfigError
      ELSE IF NumLt(config.max_message_length, Num(1)) THEN ConfigError
      ELSE config

DefaultEnv ==
  [SYNC_THRESHOLD |-> Unset, MAX_MESSAGE_LENGTH |-> Unset,
   CIRCUIT_BREAKER_THRESHOLD |-> Unset, CIRCUIT_BREAKER_RESET_MS |-> Unset]

DefaultConfig == loadConfig(DefaultEnv)

(* ---------------------------------------------------------------------- *)
(* interceptor.ts : interceptMessage                                       *)
(* ---------------------------------------------------------------------- *)
NoHits == [c \in Categories |-> 0]

\* content that is undefined / null, and content that is not a string but
\* truthy (a number, an object)
ContentAbsent == [kind |-> "absent", length |-> 0, hits |-> NoHits]
ContentNonString == [kind |-> "nonstring", length |-> 0, hits |-> NoHits]
StringContent(n, h) == [kind |-> "string", length |-> n, hits |-> h]

\* !message.content
Falsy(content) ==
  content.kind = "absent" \/ (content.kind = "string" /\ content.length = 0)

Result(allowed, action, score, labels, nudge, reason) ==
  [allowed |-> allowed, action |-> action, risk_score |-> score,
   labels |-> labels, nudge_message |-> nudge, block_reason |-> reason]

\* how the promise of interceptMessage settles; caught tells that the value
\* was made by the catch clause
Returned(r) == [kind |-> "value", result |-> r, caught |-> FALSE]
Caught(r) == [kind |-> "value", result |-> r, caught |-> TRUE]
NoResult == [none |-> TRUE]
Thrown == [kind |-> "throw", result |-> NoResult, caught |-> FALSE]

\* `${n}` in a template string
NumText(n) == IF n.nan THEN "NaN" ELSE ToString(n.v)

\* variant: a score equal to the threshold does not block
decide_strict(riskScore, matches, labels, config) ==
  IF NumGt(Num(riskScore), config.sync_threshold)
    THEN Result(FALSE, "hard_block", riskScore, labels,
                Undefined, generateBlockReason(matches))
  ELSE IF riskScore >= NudgeLow
    THEN Result(TRUE, "nudge", riskScore, labels,
                generateNudgeMessage(riskScore, matches), Undefined)
  ELSE Result(TRUE, "allow", riskScore, labels, Undefined, Undefined)

\* the decision of interceptMessage once the content is scored
decide(riskScore, matches, labels, config) ==
  IF NumGe(Num(riskScore), config.sync_threshold)
    THEN Result(FALSE, "hard_block", riskScore, labels,
                Undefined, generateBlockReason(matches))
  ELSE IF riskScore >= NudgeLow
    THEN Result(TRUE, "nudge", riskScore, labels,
                generateNudgeMessage(riskScore, matches), Undefined)
  ELSE Result(TRUE, "allow", riskScore, labels, Undefined, Undefined)

\* variant: content as long as the limit is length-gated too
interceptMessage_gateAtEqual(message, config, fault) ==
  IF config = [error |-> TRUE]
    THEN [kind |-> "throw", result |-> [none |-> TRUE], caught |-> FALSE]
  ELSE IF message.content.kind # "string" \/ message.content.length = 0
    THEN [kind |-> "value", caught |-> FALSE,
          result |-> Result(TRUE, "allow", 0, <<>>, "undefined", "undefined")]
  ELSE IF NumGe(Num(message.content.length), config.max_message_length)
    THEN [kind |-> "value", caught |-> FALSE,
          result |-> Result(FALSE, "hard_block", 30000, <<"message_too_long">>,
                            "undefined", "Message exceeds maximum length")]
  ELSE IF fault
    THEN [kind |-> "value", caught |-> TRUE,
          result |-> Result(TRUE, "allow", 0, <<"interceptor_error">>,
                            "undefined", "undefined")]
  ELSE [kind |-> "value", caught |-> FALSE,
        result |-> decide(calculateRiskScore(scanPatterns(message.content)),
                          scanPatterns(message.content),
                          generateLabels(scanPatterns(message.content)), config)]

\* variant: no catch clause, an exception of the scan leaves interceptMessage
interceptMessage_noCatch(message, config, fault) ==
  IF config = [error |-> TRUE]
    THEN [kind |-> "throw", result |-> [none |-> TRUE], caught |-> FALSE]
  ELSE IF message.content.kind # "string" \/ message.content.length = 0
    THEN [kind |-> "value", caught |-> FALSE,
          result |-> Result(TRUE, "allow", 0, <<>>, "undefined", "undefined")]
  ELSE IF NumGt(Num(message.content.length), config.max_message_length)
    THEN [kind |-> "value", caught |-> FALSE,
          result |-> Result(FALSE, "hard_block", 30000, <<"message_too_long">>,
                            "undefined", "Message exceeds maximum length")]
  ELSE IF fault
    THEN [kind |-> "throw", result |-> [none |-> TRUE], caught |-> FALSE]
  ELSE [kind |-> "value", caught |-> FALSE,
        result |-> decide(calculateRiskScore(scanPatterns(message.content)),
                          scanPatterns(message.content),
                          generateLabels(scanPatterns(message.content)), config)]

\* config is what getConfig() returned, or ConfigError when it threw (the
\* call is made before the try block); fault says that a statement of the
\* scan / score section inside the try block raises
interceptMessage(message, config, fault) ==
  IF config = ConfigError THEN Thrown
  ELSE IF Falsy(message.content) \/ message.content.kind # "string"
    THEN Returned(Result(TRUE, "allow", 0, <<>>, Undefined, Undefined))
  ELSE IF NumGt(Num(message.content.length), config.max_message_length)
    THEN Returned(Result(FALSE, "hard_block", ScoreScale, <<"message_too_long">>,
                         Undefined,
                         "Message exceeds maximum length of "
                           \o NumText(config.max_message_length)
                           \o " characters"))
  ELSE IF fault
    THEN Caught(Result(TRUE, "allow", 0, <<"interceptor_error">>,
                       Undefined, Undefined))
  ELSE LET matches == scanPatterns(message.content)
           riskScore == calculateRiskScore(matches)
           labels == generateLabels(matches)
       IN  Returned(decide(riskScore, matches, labels, config))

(* ---------------------------------------------------------------------- *)
(* config.ts : getConfig / resetConfig                                     *)
(* ---------------------------------------------------------------------- *)
NoConfig == [cached |-> FALSE, config |-> ConfigError]
Cached(c) == [cached |-> TRUE, config |-> c]

\* variant: every call loads the environment again
getConfig_noCache(cache, e) ==
  LET c == loadConfig(e)
  IN  IF c = ConfigError THEN [config |-> ConfigError, cache |-> NoConfig]
      ELSE [config |-> c, cache |-> Cached(c)]

\* the record returned (ConfigError when loadConfig throws) and the cache
\* after the call
getConfig(cache, e) ==
  IF cache.cached THEN [config |-> cache.config, cache |-> cache]
  ELSE LET c == loadConfig(e)
       IN  IF c = ConfigError THEN [config |-> ConfigError, cache |-> NoConfig]
           ELSE [config |-> c, cache |-> Cached(c)]

(* ---------------------------------------------------------------------- *)
(* circuit-breaker.ts                                                      *)
(* ---------------------------------------------------------------------- *)
CLOSED == "closed"
OPEN == "open"
HALF_OPEN == "half_open"

HalfOpenMaxAttempts == 3

\* new CircuitBreaker(config): halfOpenMaxAttempts || 1
CircuitBreaker(threshold, resetTimeout, halfOpenMaxAttempts) ==
  [state |-> CLOSED, failureCount |-> 0, successCount |-> 0,
   lastFailureTime |-> 0,
   config |-> [threshold |-> threshold, resetTimeout |-> resetTimeout,
               halfOpenMaxAttempts |->
                 IF halfOpenMaxAttempts = 0 THEN 1 ELSE halfOpenMaxAttempts]]

\* variant: an OPEN breaker probes without waiting for the cooldown
executeEnter_noCooldown(cb, t) ==
  LET cb1 == IF cb.state = "open"
             THEN [cb EXCEPT !.state = "half_open", !.successCount = 0]
             ELSE cb
  IN  IF cb1.state = "half_open"
         /\ cb1.successCount >= cb1.config.halfOpenMaxAttempts
        THEN [cb |-> cb1, admitted |-> FALSE]
      ELSE [cb |-> cb1, admitted |-> TRUE]

\* variant: an OPEN breaker fails fast whatever time has passed
executeEnter_neverProbe(cb, t) ==
  IF cb.state = "open" THEN [cb |-> cb, admitted |-> FALSE]
  ELSE IF cb.state = "half_open"
          /\ cb.successCount >= cb.config.halfOpenMaxAttempts
    THEN [cb |-> cb, admitted |-> FALSE]
  ELSE [cb |-> cb, admitted |-> TRUE]

\* execute up to the call of fn: the breaker afterwards, and whether fn is
\* called (otherwise execute returns undefined)
executeEnter(cb, t) ==
  LET timeSinceFailure == t - cb.lastFailureTime
      probing == cb.state = OPEN
                 /\ NumGe(Num(timeSinceFailure), cb.config.resetTimeout)
      cb1 == IF probing
             THEN [cb EXCEPT !.state = HALF_OPEN, !.successCount = 0]
             ELSE cb
  IN  IF cb.state = OPEN /\ ~probing THEN [cb |-> cb, admitted |-> FALSE]
      ELSE IF cb1.state = HALF_OPEN
              /\ cb1.successCount >= cb1.config.halfOpenMaxAttempts
        THEN [cb |-> cb1, admitted |-> FALSE]
      ELSE [cb |-> cb1, admitted |-> TRUE]

\* variant: closing the breaker leaves successCount as it is
onSuccess_keepSuccessCount(cb) ==
  IF cb.state = "half_open"
    THEN IF cb.successCount + 1 >= cb.config.halfOpenMaxAttempts
           THEN [cb EXCEPT !.state = "closed", !.failureCount = 0,
                           !.successCount = @ + 1]
           ELSE [cb EXCEPT !.successCount = @ + 1]
  ELSE IF cb.state = "closed" /\ cb.failureCount > 0
    THEN [cb EXCEPT !.failureCount = 0]
  ELSE cb

\* variant: the first success of a probe closes the breaker
onSuccess_closeOnFirst(cb) ==
  IF cb.state = "half_open"
    THEN [cb EXCEPT !.state = "closed", !.failureCount = 0, !.successCount = 0]
  ELSE IF cb.state = "closed" /\ cb.failureCount > 0
    THEN [cb EXCEPT !.failureCount = 0]
  ELSE cb

onSuccess(cb) ==
  IF cb.state = HALF_OPEN
    THEN IF cb.successCount + 1 >= cb.config.halfOpenMaxAttempts
           THEN [cb EXCEPT !.state = CLOSED, !.failureCount = 0,
                           !.successCount = 0]
           ELSE [cb EXCEPT !.successCount = @ + 1]
  ELSE IF cb.state = CLOSED /\ cb.failureCount > 0
    THEN [cb EXCEPT !.failureCount = 0]
  ELSE cb

\* variant: the breaker opens one failure late
onFailure_oneLate(cb, t) ==
  LET cb1 == [cb EXCEPT !.failureCount = @ + 1, !.lastFailureTime = t]
  IN  IF cb1.state = "half_open"
        THEN [cb1 EXCEPT !.state = "open", !.successCount = 0]
      ELSE IF cb1.state = "closed"
              /\ ~cb1.config.threshold.nan
              /\ cb1.failureCount > cb1.config.threshold.v
        THEN [cb1 EXCEPT !.state = "open"]
      ELSE cb1

onFailure(cb, t) ==
  LET cb1 == [cb EXCEPT !.failureCount = @ + 1, !.lastFailureTime = t]
  IN  IF cb1.state = HALF_OPEN
        THEN [cb1 EXCEPT !.state = OPEN, !.successCount = 0]
      ELSE IF cb1.state = CLOSED
              /\ NumGe(Num(cb1.failureCount), cb1.config.threshold)
        THEN [cb1 EXCEPT !.state = OPEN]
      ELSE cb1

\* execute after fn has settled: account for the outcome, then return the
\* value or rethrow
executeSettle(cb, outcome, t) ==
  IF outcome.kind = "value" THEN onSuccess(cb) ELSE onFailure(cb, t)

\* variant: a thrown error is swallowed and undefined is returned
executeResult_swallow(outcome) ==
  IF outcome.kind = "throw"
  THEN [kind |-> "sentinel", result |-> [none |-> TRUE], caught |-> FALSE]
  ELSE outcome

\* what execute hands to its caller once fn has settled: `return result`,
\* or `throw error` with the error fn threw
executeResult(outcome) ==
  IF outcome.kind = "value" THEN outcome
  ELSE [outcome EXCEPT !.kind = "throw"]

\* variant: reset leaves the failure count
reset_keepCount(cb) ==
  [cb EXCEPT !.state = "closed", !.successCount = 0, !.lastFailureTime = 0]

\* reset()
reset(cb) ==
  [cb EXCEPT !.state = CLOSED, !.failureCount = 0, !.successCount = 0,
             !.lastFailureTime = 0]

(* ---------------------------------------------------------------------- *)
(* index.ts : InterceptorService.handleMessage                             *)
(* ---------------------------------------------------------------------- *)
Sentinel == [kind |-> "sentinel", result |-> NoResult, caught |-> FALSE]
NoOutcome == [kind |-> "none", result |-> NoResult, caught |-> FALSE]

\* variant: a thrown error fails closed
handleOutcome_failClosed(outcome) ==
  IF outcome.kind = "sentinel"
    THEN Result(TRUE, "allow", 0, <<"circuit_breaker_open">>, Undefined, Undefined)
  ELSE IF outcome.kind = "throw"
    THEN Result(FALSE, "hard_block", ScoreScale, <<"interceptor_error">>,
                Undefined, "Internal error")
  ELSE outcome.result

\* the result handleMessage takes from the outcome of circuitBreaker.execute
handleOutcome(outcome) ==
  IF outcome.kind = "sentinel"
    THEN Result(TRUE, "allow", 0, <<"circuit_breaker_open">>, Undefined, Undefined)
  ELSE IF outcome.kind = "throw"
    THEN Result(TRUE, "allow", 0, <<"interceptor_error">>, Undefined, Undefined)
  ELSE outcome.result

InterceptorResponse(frame, requestId, result) ==
  [frame |-> frame, type |-> "intercept_result", request_id |-> requestId,
   result |-> result, error |-> Undefined, message |-> Undefined]

\* variant: the error frame never carries a request_id
ErrorResponse_noId(frame, message, requestId) ==
  [frame |-> frame, type |-> "error", request_id |-> "undefined",
   result |-> [none |-> TRUE], error |-> "processing_error", message |-> message]

\* sendError(ws, message, requestId)
ErrorResponse(frame, message, requestId) ==
  [frame |-> frame, type |-> "error", request_id |-> requestId,
   result |-> NoResult, error |-> "processing_error", message |-> message]

\* variant: a thrown error is answered with an error frame
respond_errorOnThrow(frame, requestId, outcome) ==
  IF outcome.kind = "throw"
    THEN [frame |-> frame, type |-> "error", request_id |-> requestId,
          result |-> NoResult, error |-> "processing_error",
          message |-> "Internal server error"]
  ELSE InterceptorResponse(frame, requestId, handleOutcome(outcome))

\* the frame handleMessage sends for the n-th frame once execute has settled
respond(frame, requestId, outcome) ==
  InterceptorResponse(frame, requestId, handleOutcome(outcome))

\* uuidv4() for the n-th frame
uuidv4(n) == "uuid-" \o ToString(n)

\* request.request_id || uuidv4()
RequestId(request, n) ==
  IF request.request_id = Undefined \/ request.request_id = ""
  THEN uuidv4(n) ELSE request.request_id

\* a value JSON.parse gives for null
Null == "null"

\* a ChatMessage as JSON.parse delivers it: nothing checks gps_lat and
\* gps_lon, so either may be absent, a number or null
ChatMessage(mid, content, lat, lon) ==
  [message_id |-> mid, content |-> content, gps_lat |-> lat, gps_lon |-> lon]

\* a frame: text that JSON.parse rejects, or the object it parses to
Unparseable ==
  [parses |-> FALSE, type |-> Undefined, hasMessage |-> FALSE,
   message |-> ChatMessage(Undefined, ContentAbsent, Undefined, Undefined),
   request_id |-> Undefined]
Request(type, rid) ==
  [parses |-> TRUE, type |-> type, hasMessage |-> FALSE,
   message |-> ChatMessage(Undefined, ContentAbsent, Undefined, Undefined),
   request_id |-> rid]
Intercept(mid, content, rid) ==
  [parses |-> TRUE, type |-> "intercept", hasMessage |-> TRUE,
   message |-> ChatMessage(mid, content, Undefined, Undefined),
   request_id |-> rid]

\* the frame with the coordinates of its message set
Located(request, lat, lon) ==
  [request EXCEPT !.message.gps_lat = lat, !.message.gps_lon = lon]

\* passes the validation of handleMessage (lines 117-131)
Valid(request) ==
  /\ request.parses
  /\ request.type = "intercept"
  /\ request.hasMessage
  /\ ~Falsy(request.message.content)

\* one call of handleMessage: its locals, where it is suspended, and (for
\* the properties) the breaker as the frame found it
Handler(request, fault, pc, requestId, outcome, cb, t) ==
  [request |-> request, fault |-> fault, pc |-> pc,
   requestId |-> requestId, outcome |-> outcome,
   arrival |-> [state |-> cb.state,
                timeSinceFailure |-> t - cb.lastFailureTime]]

(* ---------------------------------------------------------------------- *)
(* async-emitter.ts                                                        *)
(* ---------------------------------------------------------------------- *)
StreamEvent(frame, message, result) ==
  [frame |-> frame, message_id |-> message.message_id,
   intercept_result |-> [allowed |-> result.allowed, action |-> result.action,
                         risk_score |-> result.risk_score,
                         labels |-> result.labels]]

\* variant: an event emitted while disconnected is queued for later
emit_queueOffline(isConnected, outstanding, frame, message, result) ==
  outstanding \cup {StreamEvent(frame, message, result)}

\* building streamData throws: `x !== undefined` lets null through and
\* null.toString() is a TypeError, raised inside the try before xadd
serializeThrows(message) ==
  message.gps_lat = Null \/ message.gps_lon = Null

\* emit reaches redis.xadd: the emitter is connected and streamData was built
issuesXadd(isConnected, message) ==
  isConnected /\ ~serializeThrows(message)

\* emit(message, result) up to its await: the XADD commands outstanding
\* afterwards. Disconnected, it returns early; when the serialisation
\* throws, the catch logs the error and emit returns
emit(isConnected, outstanding, frame, message, result) ==
  IF ~issuesXadd(isConnected, message) THEN outstanding
  ELSE outstanding \cup {StreamEvent(frame, message, result)}

\* one call of emitAsync: its arguments, whether emit issued an XADD, and the
\* promise of emit (it is fulfilled at once when emit returns without
\* awaiting xadd)
EmitCall(frame, message, result, isConnected) ==
  [frame |-> frame, message |-> message, result |-> result,
   xadd |-> issuesXadd(isConnected, message),
   promise |-> IF issuesXadd(isConnected, message)
               THEN "pending" ELSE "fulfilled"]

\* the promise of the emit call of a frame settles
settleEmit(emitted, frame, how) ==
  [i \in DOMAIN emitted |->
     IF emitted[i].frame = frame /\ emitted[i].promise = "pending"
     THEN [emitted[i] EXCEPT !.promise = how] ELSE emitted[i]]

\* new AsyncEmitter() before connect(): no client, no timer, no disconnect()
\* call yet; client records that a Redis client object exists and can raise
\* connection events
NewEmitter ==
  [redis |-> "null", reconnectTimer |-> FALSE, client |-> FALSE,
   disconnects |-> <<>>]

\* connect(): the getConfig() call threw, so the reconnect timer is set, or
\* the client is created
connect(em, flag, config) ==
  IF config = ConfigError
  THEN [emitter |-> [em EXCEPT !.reconnectTimer = TRUE], connected |-> FALSE]
  ELSE [emitter |-> [em EXCEPT !.redis = "client", !.client = TRUE],
        connected |-> flag]

isConnected(em, flag) == flag /\ em.redis # "null"

IsConnected == isConnected(emitter, connected)

\* variant: disconnect() leaves a pending reconnect timer
disconnectEnter_keepTimer(em) ==
  [em EXCEPT !.disconnects =
     Append(@, IF em.redis # "null" THEN "quit" ELSE "returned")]

\* disconnect() up to `await this.redis.quit()`, or to its return when
\* there is no client
disconnectEnter(em) ==
  [em EXCEPT !.reconnectTimer = FALSE,
             !.disconnects =
               Append(@, IF em.redis # "null" THEN "quit" ELSE "returned")]

\* variant: a rejected quit() rejects disconnect()
disconnectSettle_rethrow(ok) == IF ok THEN "returned" ELSE "rejected"

\* disconnect() after quit() has settled: a rejection is logged, and the
\* call returns either way
disconnectSettle(ok) == "returned"

\* the process before any signal
NoProcess == [exited |-> FALSE, status |-> 0, shutdowns |-> <<>>]

Running == ~proc.exited

(* ---------------------------------------------------------------------- *)
(* The service: frames arrive on one client connection                     *)
(* ---------------------------------------------------------------------- *)
\* the clock of the model advances by the shortest cooldown loadConfig accepts
TickMs == MinBreakerResetMs

ServiceContents ==
  {StringContent(0, NoHits),
   StringContent(1, NoHits),
   StringContent(1, [NoHits EXCEPT !["phone"] = 1])}

\* a message whose gps_lat is null
NullLatitude ==
  Located(Intercept("m1", StringContent(1, NoHits), Undefined), Null, Undefined)

Frames ==
  {Unparseable, Request("other", "r1"), NullLatitude}
    \cup {Intercept("m1", c, Undefined) : c \in ServiceContents}

\* a statement of the scan / score section can only raise when it is run
Faults(request) ==
  IF Valid(request) /\ request.message.content.kind = "string"
  THEN BOOLEAN ELSE {FALSE}

\* the environment the service is started in
ServiceEnvs ==
  {[DefaultEnv EXCEPT !.CIRCUIT_BREAKER_THRESHOLD = EnvNum(n),
                      !.CIRCUIT_BREAKER_RESET_MS = EnvNum(MinBreakerResetMs)] :
     n \in {1, 2}}

\* SYNC_THRESHOLD=2 is rejected by loadConfig
InvalidSyncThreshold == EnvNum(2 * ScoreScale)

\* new InterceptorService(): getConfig() succeeds, the breaker is built from
\* the record and the emitter starts connecting
InitService ==
  /\ env \in ServiceEnvs
  /\ cachedConfig = getConfig(NoConfig, env).cache
  /\ circuitBreaker = CircuitBreaker(cachedConfig.config.circuit_breaker_threshold,
                                     cachedConfig.config.circuit_breaker_reset_ms,
                                     HalfOpenMaxAttempts)
  /\ now = 0
  /\ handlers = <<>>
  /\ sent = <<>>
  /\ emitCalls = <<>>
  /\ connected = FALSE
  /\ pending = {}
  /\ stream = <<>>
  /\ emitter = connect(NewEmitter, FALSE, cachedConfig.config).emitter
  /\ proc = NoProcess

\* variant: a rejected frame is counted as a failure of the breaker
Receive_countRejected(request, fault) ==
  LET h == Len(handlers) + 1
      requestId == RequestId(request, h)
      e == executeEnter(circuitBreaker, now)
      g == getConfig(cachedConfig, env)
  IN
  /\ Len(handlers) < MaxFrames
  /\ IF ~request.parses
       THEN /\ sent' = Append(sent, ErrorResponse(h, "Internal server error", Undefined))
            /\ handlers' = Append(handlers, Handler(request, fault, "done", Undefined, NoOutcome, circuitBreaker, now))
            /\ circuitBreaker' = onFailure(circuitBreaker, now)
            /\ UNCHANGED cachedConfig
     ELSE IF request.type # "intercept"
       THEN /\ sent' = Append(sent, ErrorResponse(h, "Invalid request type", request.request_id))
            /\ handlers' = Append(handlers, Handler(request, fault, "done", Undefined, NoOutcome, circuitBreaker, now))
            /\ circuitBreaker' = onFailure(circuitBreaker, now)
            /\ UNCHANGED cachedConfig
     ELSE IF ~request.hasMessage \/ Falsy(request.message.content)
       THEN /\ sent' = Append(sent, ErrorResponse(h, "Missing message content", request.request_id))
            /\ handlers' = Append(handlers, Handler(request, fault, "done", Undefined, NoOutcome, circuitBreaker, now))
            /\ circuitBreaker' = onFailure(circuitBreaker, now)
            /\ UNCHANGED cachedConfig
     ELSE IF ~e.admitted
       THEN /\ circuitBreaker' = e.cb
            /\ handlers' = Append(handlers, Handler(request, fault, "resume", requestId, Sentinel, circuitBreaker, now))
            /\ UNCHANGED <<sent, cachedConfig>>
     ELSE /\ circuitBreaker' = e.cb
          /\ cachedConfig' = g.cache
          /\ handlers' = Append(handlers,
                                Handler(request, fault, "execute", requestId,
                                        interceptMessage(request.message, g.config, fault),
                                        circuitBreaker, now))
          /\ UNCHANGED sent
  /\ UNCHANGED <<now, env, emitCalls, connected, pending, stream, scorerVars, breakerVars, adminVars, lifeVars>>

\* ws.on("message"): handleMessage runs up to its first suspension
Receive(request, fault) ==
  LET h == Len(handlers) + 1
      requestId == RequestId(request, h)
      e == executeEnter(circuitBreaker, now)
      g == getConfig(cachedConfig, env)
  IN
  /\ Len(handlers) < MaxFrames
  /\ IF ~request.parses
       THEN /\ sent' = Append(sent, ErrorResponse(h, "Internal server error", Undefined))
            /\ handlers' = Append(handlers, Handler(request, fault, "done", Undefined, NoOutcome, circuitBreaker, now))
            /\ UNCHANGED <<circuitBreaker, cachedConfig>>
     ELSE IF request.type # "intercept"
       THEN /\ sent' = Append(sent, ErrorResponse(h, "Invalid request type", request.request_id))
            /\ handlers' = Append(handlers, Handler(request, fault, "done", Undefined, NoOutcome, circuitBreaker, now))
            /\ UNCHANGED <<circuitBreaker, cachedConfig>>
     ELSE IF ~request.hasMessage \/ Falsy(request.message.content)
       THEN /\ sent' = Append(sent, ErrorResponse(h, "Missing message content", request.request_id))
            /\ handlers' = Append(handlers, Handler(request, fault, "done", Undefined, NoOutcome, circuitBreaker, now))
            /\ UNCHANGED <<circuitBreaker, cachedConfig>>
     ELSE IF ~e.admitted
       THEN /\ circuitBreaker' = e.cb
            /\ handlers' = Append(handlers, Handler(request, fault, "resume", requestId, Sentinel, circuitBreaker, now))
            /\ UNCHANGED <<sent, cachedConfig>>
     ELSE /\ circuitBreaker' = e.cb
          /\ cachedConfig' = g.cache
          /\ handlers' = Append(handlers,
                                Handler(request, fault, "execute", requestId,
                                        interceptMessage(request.message, g.config, fault),
                                        circuitBreaker, now))
          /\ UNCHANGED sent
  /\ UNCHANGED <<now, env, emitCalls, connected, pending, stream, scorerVars, breakerVars, adminVars, lifeVars>>

\* circuitBreaker.execute resumes after `await fn()`
Settle(h) ==
  /\ handlers[h].pc = "execute"
  /\ circuitBreaker' = executeSettle(circuitBreaker, handlers[h].outcome, now)
  /\ handlers' = [handlers EXCEPT ![h].pc = "resume"]
  /\ UNCHANGED <<now, env, cachedConfig, sent, emitCalls, connected, pending,
                 stream, scorerVars, breakerVars, adminVars, lifeVars>>

\* variant: a blocked message is not forwarded to the emitter
Resume_skipBlocked(h) ==
  LET result == handleOutcome(handlers[h].outcome)
      message == handlers[h].request.message
  IN
  /\ handlers[h].pc = "resume"
  /\ IF result.allowed
       THEN /\ emitCalls' = Append(emitCalls,
                                    EmitCall(h, message, result, IsConnected))
            /\ pending' = emit(IsConnected, pending, h, message, result)
       ELSE UNCHANGED <<emitCalls, pending>>
  /\ sent' = Append(sent, respond(h, handlers[h].requestId, handlers[h].outcome))
  /\ handlers' = [handlers EXCEPT ![h].pc = "done"]
  /\ UNCHANGED <<circuitBreaker, now, env, cachedConfig, connected, stream,
                 scorerVars, breakerVars, adminVars, lifeVars>>

\* handleMessage resumes after `await this.circuitBreaker.execute(...)`
Resume(h) ==
  LET result == handleOutcome(handlers[h].outcome)
      message == handlers[h].request.message
  IN
  /\ handlers[h].pc = "resume"
  /\ emitCalls' = Append(emitCalls, EmitCall(h, message, result, IsConnected))
  /\ pending' = emit(IsConnected, pending, h, message, result)
  /\ sent' = Append(sent, respond(h, handlers[h].requestId, handlers[h].outcome))
  /\ handlers' = [handlers EXCEPT ![h].pc = "done"]
  /\ UNCHANGED <<circuitBreaker, now, env, cachedConfig, connected, stream,
                 scorerVars, breakerVars, adminVars, lifeVars>>

\* time passes
Tick ==
  /\ now < MaxTicks * TickMs
  /\ now' = now + TickMs
  /\ UNCHANGED <<circuitBreaker, env, cachedConfig, handlers, sent, emitCalls,
                 connected, pending, stream, scorerVars, breakerVars, adminVars, lifeVars>>

\* resetConfig()
resetConfig ==
  /\ cachedConfig' = NoConfig
  /\ UNCHANGED <<circuitBreaker, now, env, handlers, sent, emitCalls,
                 connected, pending, stream, scorerVars, breakerVars, adminVars, lifeVars>>

\* process.env.SYNC_THRESHOLD is set or deleted
SetEnv(v) ==
  /\ env.SYNC_THRESHOLD # v
  /\ env' = [env EXCEPT !.SYNC_THRESHOLD = v]
  /\ UNCHANGED <<circuitBreaker, now, cachedConfig, handlers, sent, emitCalls,
                 connected, pending, stream, scorerVars, breakerVars, adminVars, lifeVars>>

\* redis "connect" / "ready"
RedisUp ==
  /\ ~connected
  /\ connected' = TRUE
  /\ UNCHANGED <<circuitBreaker, now, env, cachedConfig, handlers, sent,
                 emitCalls, pending, stream, scorerVars, breakerVars, adminVars, lifeVars>>

\* redis "error" / "close" / "reconnecting"
RedisDown ==
  /\ connected
  /\ connected' = FALSE
  /\ UNCHANGED <<circuitBreaker, now, env, cachedConfig, handlers, sent,
                 emitCalls, pending, stream, scorerVars, breakerVars, adminVars, lifeVars>>

\* XADD is acknowledged: the event is in the stream and emit returns
XaddOk(ev) ==
  /\ ev \in pending
  /\ pending' = pending \ {ev}
  /\ stream' = Append(stream, ev)
  /\ emitCalls' = settleEmit(emitCalls, ev.frame, "fulfilled")
  /\ UNCHANGED <<circuitBreaker, now, env, cachedConfig, handlers, sent,
                 connected, scorerVars, breakerVars, adminVars, lifeVars>>

\* variant: the rejection of XADD leaves emit and is answered with an error
\* frame
XaddFail_propagates(ev) ==
  /\ ev \in pending
  /\ pending' = pending \ {ev}
  /\ emitCalls' = settleEmit(emitCalls, ev.frame, "rejected")
  /\ sent' = Append(sent, ErrorResponse(ev.frame, "Internal server error",
                                        "undefined"))
  /\ UNCHANGED <<circuitBreaker, now, env, cachedConfig, handlers,
                 connected, stream, scorerVars, breakerVars, adminVars, lifeVars>>

\* XADD is rejected: emit logs the error, drops the event and returns
XaddFail(ev) ==
  /\ ev \in pending
  /\ pending' = pending \ {ev}
  /\ emitCalls' = settleEmit(emitCalls, ev.frame, "fulfilled")
  /\ UNCHANGED <<circuitBreaker, now, env, cachedConfig, handlers, sent,
                 connected, stream, scorerVars, breakerVars, adminVars, lifeVars>>

(* ---------------------------------------------------------------------- *)
(* The scorer on its own: interceptMessage applied to one drawn input,     *)
(* and the result the dispatcher makes of its outcome                      *)
(* ---------------------------------------------------------------------- *)
SyncThresholds == {0, 9000, 12750, 24000}

HitVectors == [Categories -> 0..MaxCount]

ScorerContents ==
  {ContentAbsent, ContentNonString, StringContent(0, NoHits)}
    \cup {StringContent(n, h) : n \in 1..(MaxLen + 1), h \in HitVectors}

ScorerEnvs ==
  {[DefaultEnv EXCEPT !.SYNC_THRESHOLD = t, !.MAX_MESSAGE_LENGTH = m] :
     t \in {EnvNum(x) : x \in SyncThresholds} \cup {Unset},
     m \in {Unset, EnvNum(MaxLen)}}

InvalidEnv == [DefaultEnv EXCEPT !.SYNC_THRESHOLD = InvalidSyncThreshold]

InitScorerVars ==
  /\ scMessage \in {ChatMessage("m", c, Undefined, Undefined) : c \in ScorerContents}
  /\ scConfig \in {loadConfig(e) : e \in ScorerEnvs \cup {InvalidEnv}}
  /\ scFault \in BOOLEAN
  /\ scOutcome = NoOutcome
  /\ scResult = NoResult

\* interceptMessage(message)
Score ==
  /\ scOutcome = NoOutcome
  /\ scResult = NoResult
  /\ scOutcome' = interceptMessage(scMessage, scConfig, scFault)
  /\ UNCHANGED <<scMessage, scConfig, scFault, scResult>>

\* the dispatcher's result for the scorer's outcome
Compose ==
  /\ scOutcome # NoOutcome
  /\ scResult = NoResult
  /\ scResult' = handleOutcome(scOutcome)
  /\ UNCHANGED <<scMessage, scConfig, scFault, scOutcome>>

\* the dispatcher's result when the breaker does not admit the call
ComposeOpen ==
  /\ scOutcome = NoOutcome
  /\ scResult = NoResult
  /\ scResult' = handleOutcome(Sentinel)
  /\ UNCHANGED <<scMessage, scConfig, scFault, scOutcome>>

(* ---------------------------------------------------------------------- *)
(* The circuit breaker on its own: callers run execute(fn) on one breaker, *)
(* fn suspends and later resolves or throws                                *)
(* ---------------------------------------------------------------------- *)
\* how fn settles: it resolves with a value or throws an error
Resolves(v) == [kind |-> "value", value |-> v, error |-> "none"]
Rejects(e) == [kind |-> "throw", value |-> "none", error |-> e]

\* execute returned undefined without calling fn
FailedFast == [kind |-> "sentinel", value |-> "none", error |-> "none"]
NotReturned == [kind |-> "none", value |-> "none", error |-> "none"]

Operations == {Resolves("ok"), Rejects("E1")}

BreakerThresholds == {1, 2}

\* halfOpenMaxAttempts as passed to the constructor: 0 stands for a value
\* left out
HalfOpenOptions == {0, 2}

NoStreak == [failures |-> 0, successes |-> 0]

\* one call of execute: the operation passed, where the call is, what it
\* returned, and (for the properties) whether fn was called while the breaker
\* was HALF_OPEN, the breaker as the call found it and the operation that
\* preceded the call
Call(op, pc, returned, probe, cb, t, after) ==
  [op |-> op, pc |-> pc, returned |-> returned, probe |-> probe,
   arrival |-> [state |-> cb.state, timeSinceFailure |-> t - cb.lastFailureTime],
   after |-> after]

\* execute(fn) up to `await fn()`
Execute(op) ==
  LET e == executeEnter(circuitBreaker, now)
  IN
  /\ Len(calls) < MaxCalls
  /\ circuitBreaker' = e.cb
  /\ calls' = Append(calls,
                     IF e.admitted
                     THEN Call(op, "running", NotReturned,
                               e.cb.state = HALF_OPEN, circuitBreaker, now, lastOp)
                     ELSE Call(op, "returned", FailedFast, FALSE,
                               circuitBreaker, now, lastOp))
  /\ streak' = IF circuitBreaker.state = OPEN /\ e.cb.state = HALF_OPEN
               THEN [streak EXCEPT !.successes = 0] ELSE streak
  /\ lastOp' = [op |-> "execute", from |-> circuitBreaker.state]
  /\ UNCHANGED <<now, env, cachedConfig, handlers, sent, emitCalls, connected,
                 pending, stream, resets, scorerVars, adminVars, lifeVars>>

\* fn settles: execute accounts for the outcome and returns or rethrows
Return(c) ==
  /\ calls[c].pc = "running"
  /\ circuitBreaker' = executeSettle(circuitBreaker, calls[c].op, now)
  /\ calls' = [calls EXCEPT ![c].pc = "returned",
                            ![c].returned = executeResult(calls[c].op)]
  /\ streak' = IF calls[c].op.kind = "value"
               THEN [failures |-> 0,
                     successes |-> Min(streak.successes + 1, MaxCalls)]
               ELSE [failures |-> Min(streak.failures + 1, MaxCalls),
                     successes |-> 0]
  /\ lastOp' = [op |-> "settle", from |-> circuitBreaker.state]
  /\ UNCHANGED <<now, env, cachedConfig, handlers, sent, emitCalls, connected,
                 pending, stream, resets, scorerVars, adminVars, lifeVars>>

\* reset()
Reset ==
  /\ resets < MaxResets
  /\ circuitBreaker' = reset(circuitBreaker)
  /\ resets' = resets + 1
  /\ streak' = NoStreak
  /\ lastOp' = [op |-> "reset", from |-> circuitBreaker.state]
  /\ UNCHANGED <<now, env, cachedConfig, handlers, sent, emitCalls, connected,
                 pending, stream, calls, scorerVars, adminVars, lifeVars>>

\* time passes
Advance ==
  /\ now < MaxAdvance * TickMs
  /\ now' = now + TickMs
  /\ UNCHANGED <<circuitBreaker, env, cachedConfig, handlers, sent, emitCalls,
                 connected, pending, stream, scorerVars, breakerVars, adminVars, lifeVars>>

\* the failures the breaker has counted and the failures still to come from
\* the calls that are running
FailuresDue ==
  circuitBreaker.failureCount
    + Cardinality({c \in DOMAIN calls :
                     calls[c].pc = "running" /\ calls[c].op.kind = "throw"})

\* execute(fn) in a run without end: at most MaxPending calls are on record,
\* and failureCount stays within MaxFailures
Arrive(op) ==
  /\ Len(calls) < MaxPending
  /\ op.kind = "throw" => FailuresDue < MaxFailures
  /\ Execute(op)

\* the caller is done with the calls that have returned
Forget ==
  /\ \E c \in DOMAIN calls : calls[c].pc = "returned"
  /\ calls' = SelectSeq(calls, LAMBDA call : call.pc = "running")
  /\ UNCHANGED <<circuitBreaker, now, env, cachedConfig, handlers, sent,
                 emitCalls, connected, pending, stream, streak, lastOp, resets,
                 scorerVars, adminVars, lifeVars>>

\* time passes in a run without end: Date.now() grows by TickMs. execute
\* reads the clock only as Date.now() - lastFailureTime, so once now is at
\* the top of its range the origin of the clock is moved instead
Elapse ==
  /\ IF now < MaxAdvance * TickMs
     THEN now' = now + TickMs /\ UNCHANGED circuitBreaker
     ELSE /\ now' = now
          /\ circuitBreaker' =
               [circuitBreaker EXCEPT !.lastFailureTime = Max(0, @ - TickMs)]
  /\ UNCHANGED <<env, cachedConfig, handlers, sent, emitCalls, connected,
                 pending, stream, scorerVars, breakerVars, adminVars, lifeVars>>

(* ---------------------------------------------------------------------- *)
(* index.ts : start, shutdown and the health endpoint                      *)
(* ---------------------------------------------------------------------- *)
NoHealth ==
  [status |-> 0, text |-> "none", websocket |-> "none",
   circuit_breaker |-> "none", redis |-> "none"]

\* variant: a disconnected log backend makes the service unhealthy
handleHealthCheck_redisCounts(wssUp, circuitState, redisConnected) ==
  LET healthy == wssUp /\ redisConnected
                 /\ (circuitState = "closed" \/ circuitState = "half_open")
  IN  [status |-> IF healthy THEN 200 ELSE 503,
       text |-> IF healthy THEN "healthy" ELSE "unhealthy",
       websocket |-> IF wssUp THEN "ok" ELSE "down",
       circuit_breaker |-> circuitState,
       redis |-> IF redisConnected THEN "connected" ELSE "disconnected"]

\* handleHealthCheck(res): the status code and the body written
handleHealthCheck(wssUp, circuitState, redisConnected) ==
  LET healthy == wssUp /\ (circuitState = CLOSED \/ circuitState = HALF_OPEN)
  IN  [status |-> IF healthy THEN 200 ELSE 503,
       text |-> IF healthy THEN "healthy" ELSE "unhealthy",
       websocket |-> IF wssUp THEN "ok" ELSE "down",
       circuit_breaker |-> circuitState,
       redis |-> IF redisConnected THEN "connected" ELSE "disconnected"]

\* start() has created the servers: connections opened while they listened
\* are served, also after shutdown() has closed the servers
Alive == httpServer \in {"listening", "closed"}

\* start(): a new WebSocket server, then a new health server. Nothing guards
\* the call: after shutdown() it starts the service again
Start ==
  /\ wss' = TRUE
  /\ httpServer' = "listening"
  /\ UNCHANGED <<serviceVars, scorerVars, breakerVars, health, loaded, lifeVars>>

\* shutdown() up to the first await, which is `await this.redis.quit()` in
\* disconnect(): a server that exists is closed and its field set to null
\* (connections already open live on), a pending reconnect timer is
\* cleared, and quit() is sent if there is a client. Nothing guards the call:
\* it may come before start() and more than once
Shutdown ==
  /\ Len(emitter.disconnects) < MaxSignals
  /\ wss' = FALSE
  /\ httpServer' = IF httpServer = "listening" THEN "closed" ELSE httpServer
  /\ emitter' = disconnectEnter(emitter)
  /\ UNCHANGED <<serviceVars, scorerVars, breakerVars, health, loaded, proc>>

\* GET /health
HealthCheck ==
  /\ Alive
  /\ health' = handleHealthCheck(wss, circuitBreaker.state, IsConnected)
  /\ UNCHANGED <<serviceVars, scorerVars, breakerVars, wss, httpServer, loaded,
                 lifeVars>>

\* the frames of the health specification
HealthFrames ==
  {Intercept("m1", StringContent(1, NoHits), Undefined),
   Located(Intercept("m1", StringContent(1, NoHits), Undefined), "0", Null)}

(* ---------------------------------------------------------------------- *)
(* async-emitter.ts and main(): reconnect timer, disconnect(), signals     *)
(* ---------------------------------------------------------------------- *)
\* the reconnect timer fires: reconnectTimer = null, then connect()
ReconnectTimerFires ==
  LET g == getConfig(cachedConfig, env)
      c == connect([emitter EXCEPT !.reconnectTimer = FALSE], connected,
                   g.config)
  IN
  /\ emitter.reconnectTimer
  /\ emitter' = c.emitter
  /\ connected' = c.connected
  /\ cachedConfig' = g.cache
  /\ UNCHANGED <<circuitBreaker, now, env, handlers, sent, emitCalls, pending,
                 stream, scorerVars, breakerVars, adminVars, proc>>

\* the message and the result a caller of the emitter passes
EmittedMessage == ChatMessage("m1", StringContent(1, NoHits), Undefined, Undefined)
EmittedResult == Result(TRUE, "allow", 0, <<>>, Undefined, Undefined)

\* emitAsync(message, result) called on the emitter
EmitAsync ==
  LET n == Len(emitCalls) + 1
  IN
  /\ Len(emitCalls) < MaxFrames
  /\ emitCalls' = Append(emitCalls,
                         EmitCall(n, EmittedMessage, EmittedResult, IsConnected))
  /\ pending' = emit(IsConnected, pending, n, EmittedMessage, EmittedResult)
  /\ UNCHANGED <<circuitBreaker, now, env, cachedConfig, handlers, sent,
                 connected, stream, scorerVars, breakerVars, adminVars,
                 lifeVars>>

\* disconnect() called on the emitter
Disconnect ==
  /\ Len(emitter.disconnects) < MaxSignals
  /\ emitter' = disconnectEnter(emitter)
  /\ UNCHANGED <<serviceVars, scorerVars, breakerVars, adminVars, proc>>

\* quit() of the i-th disconnect() call is answered (ok) or rejected: the
\* call sets redis = null and connected = false and returns
QuitSettles(i, ok) ==
  /\ i \in DOMAIN emitter.disconnects
  /\ emitter.disconnects[i] = "quit"
  /\ emitter' = [emitter EXCEPT !.disconnects[i] = disconnectSettle(ok),
                                !.redis = "null"]
  /\ connected' = FALSE
  /\ UNCHANGED <<circuitBreaker, now, env, cachedConfig, handlers, sent,
                 emitCalls, pending, stream, scorerVars, breakerVars,
                 adminVars, proc>>

\* SIGINT or SIGTERM: the handler runs service.shutdown() up to the await in
\* disconnect(): both servers are closed and set to null, a pending timer
\* is cleared, quit() is sent
Signal ==
  /\ Running
  /\ Len(proc.shutdowns) < MaxSignals
  /\ wss' = FALSE
  /\ httpServer' = IF httpServer = "listening" THEN "closed" ELSE httpServer
  /\ emitter' = disconnectEnter(emitter)
  /\ proc' = [proc EXCEPT !.shutdowns = Append(@, "disconnect")]
  /\ UNCHANGED <<serviceVars, scorerVars, breakerVars, health, loaded>>

\* the i-th signal handler resumes after `await service.shutdown()` and
\* calls process.exit(0); had shutdown() rejected, the unhandledRejection
\* handler would call process.exit(1)
ExitProcess(i) ==
  /\ Running
  /\ i \in DOMAIN proc.shutdowns
  /\ proc.shutdowns[i] = "disconnect"
  /\ emitter.disconnects[i] # "quit"
  /\ proc' = [exited |-> TRUE,
              status |-> IF emitter.disconnects[i] = "rejected" THEN 1 ELSE 0,
              shutdowns |-> [proc.shutdowns EXCEPT ![i] = "done"]]
  /\ UNCHANGED <<serviceVars, scorerVars, breakerVars, adminVars, emitter>>

(* ---------------------------------------------------------------------- *)
(* config.ts on its own: getConfig under a drawn environment               *)
(* ---------------------------------------------------------------------- *)
NotLoaded == [loaded |-> FALSE]

\* each tunable: unset, text that does not parse, a value below the range,
\* the lowest value of the range (and for SYNC_THRESHOLD its highest value and
\* a value above it)
ConfigEnvs ==
  {[SYNC_THRESHOLD |-> s, MAX_MESSAGE_LENGTH |-> m,
    CIRCUIT_BREAKER_THRESHOLD |-> t, CIRCUIT_BREAKER_RESET_MS |-> r] :
     s \in {Unset, EnvNaN, EnvNum(0 - 1), EnvNum(0), EnvNum(ScoreScale),
            InvalidSyncThreshold},
     m \in {Unset, EnvNaN, EnvNum(0), EnvNum(1)},
     t \in {Unset, EnvNaN, EnvNum(0), EnvNum(1)},
     r \in {Unset, EnvNaN, EnvNum(MinBreakerResetMs - 1),
            EnvNum(MinBreakerResetMs)}}

\* getConfig()
GetConfig ==
  LET g == getConfig(cachedConfig, env)
  IN
  /\ loaded' = g.config
  /\ cachedConfig' = g.cache
  /\ UNCHANGED <<circuitBreaker, now, env, handlers, sent, emitCalls,
                 connected, pending, stream, scorerVars, breakerVars,
                 wss, httpServer, health, lifeVars>>

(* ---------------------------------------------------------------------- *)
(* The assembled service: the process started by main(), in which nothing  *)
(* calls resetConfig                                                       *)
(* ---------------------------------------------------------------------- *)
AssembledFrames ==
  {Unparseable, Request("other", "r1"), Request("intercept", "r2"),
   Intercept("m1", StringContent(0, NoHits), "r3"),
   Intercept("m1", StringContent(1, [NoHits EXCEPT !["phone"] = 1]), Undefined),
   NullLatitude}
    \cup {Intercept("m1", StringContent(1, NoHits), rid) :
            rid \in {Undefined, "r4", ""}}

(* ---------------------------------------------------------------------- *)
(* Specifications                                                          *)
(* ---------------------------------------------------------------------- *)
IdleScorer ==
  /\ scMessage = ChatMessage("m", ContentAbsent, Undefined, Undefined)
  /\ scConfig = DefaultConfig
  /\ scFault = FALSE
  /\ scOutcome = NoOutcome
  /\ scResult = NoResult

IdleBreaker ==
  /\ calls = <<>>
  /\ streak = NoStreak
  /\ lastOp = [op |-> "new", from |-> CLOSED]
  /\ resets = 0

\* the service is started: start() has returned
Started ==
  /\ wss = TRUE
  /\ httpServer = "listening"
  /\ health = NoHealth
  /\ loaded = NotLoaded

\* no emitter is constructed, no signal is handled
NoEmitter ==
  /\ emitter = NewEmitter
  /\ proc = NoProcess

\* no service is constructed
NoService ==
  /\ wss = FALSE
  /\ httpServer = "null"
  /\ health = NoHealth
  /\ loaded = NotLoaded

Init == InitService /\ IdleScorer /\ IdleBreaker /\ Started

Next ==
  \/ \E request \in Frames : \E fault \in Faults(request) : Receive(request, fault)
  \/ \E h \in 1..Len(handlers) : Settle(h)
  \/ \E h \in 1..Len(handlers) : Resume(h)
  \/ Tick
  \/ resetConfig
  \/ \E v \in {Unset, InvalidSyncThreshold} : SetEnv(v)
  \/ RedisUp
  \/ RedisDown
  \/ \E ev \in pending : XaddOk(ev)
  \/ \E ev \in pending : XaddFail(ev)

Spec == Init /\ [][Next]_vars

InitScorer ==
  /\ InitScorerVars
  /\ IdleBreaker
  /\ NoService
  /\ NoEmitter
  /\ env = DefaultEnv
  /\ cachedConfig = NoConfig
  /\ circuitBreaker = CircuitBreaker(Num(DefaultBreakerThreshold),
                                     Num(DefaultBreakerResetMs),
                                     HalfOpenMaxAttempts)
  /\ now = 0
  /\ handlers = <<>>
  /\ sent = <<>>
  /\ emitCalls = <<>>
  /\ connected = FALSE
  /\ pending = {}
  /\ stream = <<>>

NextScorer ==
  \/ Score /\ UNCHANGED <<serviceVars, breakerVars, adminVars, lifeVars>>
  \/ Compose /\ UNCHANGED <<serviceVars, breakerVars, adminVars, lifeVars>>
  \/ ComposeOpen /\ UNCHANGED <<serviceVars, breakerVars, adminVars, lifeVars>>

SpecScorer == InitScorer /\ [][NextScorer]_vars

\* new CircuitBreaker({threshold, resetTimeout, halfOpenMaxAttempts})
InitBreaker ==
  /\ circuitBreaker \in {CircuitBreaker(Num(n), Num(TickMs), k) :
                            n \in BreakerThresholds, k \in HalfOpenOptions}
  /\ now = 0
  /\ IdleBreaker
  /\ IdleScorer
  /\ NoService
  /\ NoEmitter
  /\ env = DefaultEnv
  /\ cachedConfig = NoConfig
  /\ handlers = <<>>
  /\ sent = <<>>
  /\ emitCalls = <<>>
  /\ connected = FALSE
  /\ pending = {}
  /\ stream = <<>>

NextBreaker ==
  \/ \E op \in Operations : Execute(op)
  \/ \E c \in 1..Len(calls) : Return(c)
  \/ Reset
  \/ Advance

SpecBreaker == InitBreaker /\ [][NextBreaker]_vars

\* the breaker in a run without end: calls keep arriving and returning and
\* time keeps passing
NextRecovery ==
  \/ \E op \in Operations : Arrive(op)
  \/ \E c \in 1..Len(calls) : Return(c)
  \/ Reset
  \/ Elapse
  \/ Forget

SpecRecovery == InitBreaker /\ [][NextRecovery]_vars

\* execute keeps being called, every fn() settles, the clock keeps running
FairRecovery ==
  /\ SpecRecovery
  /\ WF_vars(\E op \in Operations : Arrive(op))
  /\ WF_vars(\E c \in 1..Len(calls) : Return(c))
  /\ WF_vars(Elapse)
  /\ WF_vars(Forget)

\* main(): the service is constructed and started, then frames arrive
NextAssembled ==
  \/ \E request \in AssembledFrames : \E fault \in Faults(request) :
        Receive(request, fault)
  \/ \E h \in 1..Len(handlers) : Settle(h)
  \/ \E h \in 1..Len(handlers) : Resume(h)
  \/ Tick
  \/ RedisUp
  \/ RedisDown
  \/ \E ev \in pending : XaddOk(ev)
  \/ \E ev \in pending : XaddFail(ev)

SpecAssembled == Init /\ [][NextAssembled]_vars

\* continuations of resolved promises are run, and every XADD issued is
\* answered or rejected
FairAssembled ==
  /\ SpecAssembled
  /\ WF_vars(\E h \in 1..Len(handlers) : Settle(h))
  /\ WF_vars(\E h \in 1..Len(handlers) : Resume(h))
  /\ WF_vars(\E ev \in pending : XaddOk(ev) \/ XaddFail(ev))

\* new InterceptorService() under CIRCUIT_BREAKER_THRESHOLD=1, not yet started
InitHealth ==
  /\ InitService
  /\ env.CIRCUIT_BREAKER_THRESHOLD = EnvNum(1)
  /\ IdleScorer
  /\ IdleBreaker
  /\ NoService

NextHealth ==
  \/ Start
  \/ Shutdown
  \/ \E i \in 1..MaxSignals : \E ok \in BOOLEAN : QuitSettles(i, ok)
  \/ HealthCheck
  \/ Alive /\ \E request \in HealthFrames : Receive(request, FALSE)
  \/ \E h \in 1..Len(handlers) : Settle(h)
  \/ \E h \in 1..Len(handlers) : Resume(h)
  \/ Tick
  \/ resetConfig
  \/ SetEnv(InvalidSyncThreshold)
  \/ RedisUp
  \/ RedisDown
  \/ \E ev \in pending : XaddOk(ev)
  \/ \E ev \in pending : XaddFail(ev)

SpecHealth == InitHealth /\ [][NextHealth]_vars

\* new AsyncEmitter() under a drawn environment with nothing cached: connect()
\* has created the client, or getConfig() threw and the timer is set
InitEmitter ==
  /\ env \in {DefaultEnv, InvalidEnv}
  /\ cachedConfig = getConfig(NoConfig, env).cache
  /\ emitter = connect(NewEmitter, FALSE, getConfig(NoConfig, env).config).emitter
  /\ connected = FALSE
  /\ proc = NoProcess
  /\ circuitBreaker = CircuitBreaker(Num(DefaultBreakerThreshold),
                                     Num(DefaultBreakerResetMs),
                                     HalfOpenMaxAttempts)
  /\ now = 0
  /\ handlers = <<>>
  /\ sent = <<>>
  /\ emitCalls = <<>>
  /\ pending = {}
  /\ stream = <<>>
  /\ IdleScorer
  /\ IdleBreaker
  /\ NoService

NextEmitter ==
  \/ ReconnectTimerFires
  \/ \E v \in {Unset, InvalidSyncThreshold} : SetEnv(v)
  \/ emitter.client /\ RedisUp
  \/ emitter.client /\ RedisDown
  \/ EmitAsync
  \/ \E ev \in pending : XaddOk(ev)
  \/ \E ev \in pending : XaddFail(ev)
  \/ Disconnect
  \/ \E i \in 1..MaxSignals : \E ok \in BOOLEAN : QuitSettles(i, ok)

SpecEmitter == InitEmitter /\ [][NextEmitter]_vars

\* the process started by main() until it exits
NextShutdown ==
  \/ Signal
  \/ Running /\ \E i \in 1..MaxSignals : \E ok \in BOOLEAN : QuitSettles(i, ok)
  \/ \E i \in 1..MaxSignals : ExitProcess(i)
  \/ Running /\ \E request \in HealthFrames : Receive(request, FALSE)
  \/ Running /\ \E h \in 1..Len(handlers) : Settle(h)
  \/ Running /\ \E h \in 1..Len(handlers) : Resume(h)
  \/ Running /\ RedisUp
  \/ Running /\ RedisDown
  \/ Running /\ \E ev \in pending : XaddOk(ev)
  \/ Running /\ \E ev \in pending : XaddFail(ev)

SpecShutdown == Init /\ [][NextShutdown]_vars

\* every quit() is answered or rejected, and the continuation of a settled
\* promise is run
FairShutdown ==
  /\ SpecShutdown
  /\ WF_vars(Running /\ \E i \in 1..MaxSignals : \E ok \in BOOLEAN :
                          QuitSettles(i, ok))
  /\ WF_vars(\E i \in 1..MaxSignals : ExitProcess(i))

\* the configuration module under a drawn environment
InitConfig ==
  /\ env \in ConfigEnvs
  /\ cachedConfig = NoConfig
  /\ loaded = NotLoaded
  /\ wss = FALSE
  /\ httpServer = "null"
  /\ health = NoHealth
  /\ circuitBreaker = CircuitBreaker(Num(DefaultBreakerThreshold),
                                     Num(DefaultBreakerResetMs),
                                     HalfOpenMaxAttempts)
  /\ now = 0
  /\ handlers = <<>>
  /\ sent = <<>>
  /\ emitCalls = <<>>
  /\ connected = FALSE
  /\ pending = {}
  /\ stream = <<>>
  /\ IdleScorer
  /\ IdleBreaker
  /\ NoEmitter

NextConfig ==
  \/ GetConfig
  \/ resetConfig
  \/ \E v \in {Unset, EnvNum(0), InvalidSyncThreshold} : SetEnv(v)

SpecConfig == InitConfig /\ [][NextConfig]_vars

(* ---------------------------------------------------------------------- *)
(* Properties of the service (Spec)                                        *)
(* ---------------------------------------------------------------------- *)
ResponsesTo(h) == {i \in DOMAIN sent : sent[i].frame = h}
Answer(h) == sent[CHOOSE i \in ResponsesTo(h) : TRUE]

HasLabel(r, label) == \E i \in DOMAIN r.labels : r.labels[i] = label

FailOpenResult(r, label) ==
  /\ r.allowed = TRUE
  /\ r.action = "allow"
  /\ r.risk_score = 0
  /\ HasLabel(r, label)

\* the scoring of frame h raised: getConfig threw, or a statement of the try
\* block did
ScoringThrew(h) ==
  handlers[h].outcome.kind = "throw" \/ handlers[h].outcome.caught

\* C1: fail-open guarantee. A frame that passes validation gets no error
\* frame, its handler can always take its next step, and once the handler is
\* done exactly one intercept_result frame has been sent for it; this for any
\* breaker state, scoring outcome and emitter connection state.
C1_FailOpen ==
  \A h \in DOMAIN handlers :
    Valid(handlers[h].request) =>
      /\ \A i \in ResponsesTo(h) : sent[i].type = "intercept_result"
      /\ Cardinality(ResponsesTo(h)) = (IF handlers[h].pc = "done" THEN 1 ELSE 0)
      /\ handlers[h].pc = "execute" => ENABLED Settle(h)
      /\ handlers[h].pc = "resume" => ENABLED Resume(h)

\* a frame answered from the sentinel and a frame answered after a throw,
\* both with the emitter disconnected
C1_Witness ==
  /\ ~connected
  /\ \E h \in DOMAIN handlers :
       /\ handlers[h].pc = "done"
       /\ handlers[h].outcome = Sentinel
       /\ Cardinality(ResponsesTo(h)) = 1
  /\ \E h \in DOMAIN handlers :
       /\ handlers[h].pc = "done"
       /\ handlers[h].outcome.kind = "throw"
       /\ Cardinality(ResponsesTo(h)) = 1

\* the breaker was OPEN and still cooling down when frame h arrived
Cooling(h) ==
  /\ handlers[h].arrival.state = OPEN
  /\ NumLt(Num(handlers[h].arrival.timeSinceFailure),
           circuitBreaker.config.resetTimeout)

OpenAnswer(h) ==
  /\ handlers[h].outcome = Sentinel
  /\ handlers[h].pc = "done" =>
       /\ Cardinality(ResponsesTo(h)) = 1
       /\ Answer(h).type = "intercept_result"
       /\ FailOpenResult(Answer(h).result, "circuit_breaker_open")

\* C2 as claimed: a valid frame that arrives while the breaker is OPEN is
\* answered allowed / allow / 0 / circuit_breaker_open without the scorer
\* being invoked.
C2_OpenOnArrival ==
  \A h \in DOMAIN handlers :
    (Valid(handlers[h].request) /\ handlers[h].arrival.state = OPEN)
      => OpenAnswer(h)

\* C2 amended: a valid frame that arrives while the breaker is OPEN and less
\* than resetTimeout has passed since the last failure is answered allowed /
\* allow / 0 / circuit_breaker_open without the scorer being invoked.
C2_OpenCoolingOnArrival ==
  \A h \in DOMAIN handlers :
    (Valid(handlers[h].request) /\ Cooling(h)) => OpenAnswer(h)

C2_Witness ==
  \E h \in DOMAIN handlers :
    /\ Valid(handlers[h].request)
    /\ Cooling(h)
    /\ handlers[h].pc = "done"
    /\ HasLabel(Answer(h).result, "circuit_breaker_open")

\* C3: when the scoring of a valid frame throws, the frame is still answered
\* with one intercept_result whose result is allowed / allow / 0 and carries
\* the label interceptor_error.
C3_ThrowFailsOpen ==
  \A h \in DOMAIN handlers :
    (Valid(handlers[h].request) /\ handlers[h].pc = "done" /\ ScoringThrew(h))
      => /\ Cardinality(ResponsesTo(h)) = 1
         /\ Answer(h).type = "intercept_result"
         /\ FailOpenResult(Answer(h).result, "interceptor_error")

\* one frame whose getConfig call threw and one whose scan raised, both
\* answered
C3_Witness ==
  /\ \E h \in DOMAIN handlers :
       /\ handlers[h].pc = "done"
       /\ handlers[h].outcome.kind = "throw"
       /\ HasLabel(Answer(h).result, "interceptor_error")
  /\ \E h \in DOMAIN handlers :
       /\ handlers[h].pc = "done"
       /\ handlers[h].outcome.caught
       /\ HasLabel(Answer(h).result, "interceptor_error")

\* C4 as claimed: when execute accounts for a call whose scoring raised an
\* exception, failureCount grows by one, and the breaker opens once it
\* reaches circuit_breaker_threshold.
C4_ScoringExceptionCounts ==
  [][\A h \in DOMAIN handlers :
       (handlers[h].pc = "execute" /\ handlers'[h].pc = "resume" /\ ScoringThrew(h))
         => /\ circuitBreaker'.failureCount = circuitBreaker.failureCount + 1
            /\ (circuitBreaker.state = CLOSED
                /\ NumGe(Num(circuitBreaker'.failureCount),
                         circuitBreaker.config.threshold))
                 => circuitBreaker'.state = OPEN]_vars

\* C19 as claimed: on the connection, responses are sent in the order in
\* which their request frames arrived.
C19_ResponseOrder ==
  \A i, j \in DOMAIN sent : i < j => sent[i].frame < sent[j].frame

EmitCallsFor(h) == {i \in DOMAIN emitCalls : emitCalls[i].frame = h}

\* C20: for a frame that passes validation emitAsync is called exactly once,
\* when the frame is answered, with the request's message and the result sent
\* to the client, whatever the result.
C20_EmitOncePerFrame ==
  \A h \in DOMAIN handlers :
    Valid(handlers[h].request) =>
      /\ Cardinality(EmitCallsFor(h)) = (IF handlers[h].pc = "done" THEN 1 ELSE 0)
      /\ \A i \in EmitCallsFor(h) :
           /\ emitCalls[i].message = handlers[h].request.message
           /\ Cardinality(ResponsesTo(h)) = 1
           /\ emitCalls[i].result = Answer(h).result

\* a blocked frame and a frame answered after a throw, both forwarded
C20_Witness ==
  /\ \E h \in DOMAIN handlers : \E i \in EmitCallsFor(h) :
       /\ handlers[h].pc = "done"
       /\ emitCalls[i].result.action = "hard_block"
  /\ \E h \in DOMAIN handlers : \E i \in EmitCallsFor(h) :
       /\ handlers[h].pc = "done"
       /\ HasLabel(emitCalls[i].result, "interceptor_error")

\* C34: a frame rejected by parsing or validation does not reach the breaker
\* or the scorer (the breaker and the cached configuration stay as they are,
\* the handler ends without an outcome) and no event is ever emitted for it.
C34_RejectedFrameNoEffect ==
  [][/\ (Len(handlers') = Len(handlers) + 1
           /\ ~Valid(handlers'[Len(handlers')].request))
          => /\ circuitBreaker' = circuitBreaker
             /\ cachedConfig' = cachedConfig
             /\ emitCalls' = emitCalls
             /\ pending' = pending
             /\ stream' = stream
     /\ \A h \in DOMAIN handlers' :
          ~Valid(handlers'[h].request)
            => /\ handlers'[h].pc = "done"
               /\ handlers'[h].outcome = NoOutcome
               /\ \A i \in DOMAIN emitCalls' : emitCalls'[i].frame # h]_vars

\* an unparseable frame arrived while the breaker was OPEN with the cooldown
\* elapsed, when a call of execute would have moved it to HALF_OPEN
C34_Witness ==
  /\ circuitBreaker.state = OPEN
  /\ \E h \in DOMAIN handlers :
       /\ ~handlers[h].request.parses
       /\ handlers[h].arrival.state = OPEN
       /\ NumGe(Num(handlers[h].arrival.timeSinceFailure),
                circuitBreaker.config.resetTimeout)
       /\ ResponsesTo(h) # {}

(* ---------------------------------------------------------------------- *)
(* Properties of the results (SpecScorer)                                  *)
(* ---------------------------------------------------------------------- *)
Scored == scOutcome.kind = "value"

\* every result at hand: the scorer's and the dispatcher's
AllResults ==
  (IF Scored THEN {scOutcome.result} ELSE {})
    \cup (IF scResult # NoResult THEN {scResult} ELSE {})

\* the content is a string no longer than max_message_length
WithinLimit ==
  /\ scConfig # ConfigError
  /\ scMessage.content.kind = "string"
  /\ ~NumGt(Num(scMessage.content.length), scConfig.max_message_length)

OnlyCategory(c) ==
  /\ scMessage.content.kind = "string"
  /\ scMessage.content.length >= 1
  /\ scMessage.content.hits[c] >= 1
  /\ \A d \in Categories \ {c} : scMessage.content.hits[d] = 0

\* C5 as claimed: under a valid configuration a result carries a
\* nudge_message if and only if its action is nudge.
C5_NudgeMessageIffNudge ==
  scConfig # ConfigError =>
    \A r \in AllResults : (r.nudge_message # Undefined) <=> (r.action = "nudge")

\* C6: in every result of the scorer or the dispatcher, allowed = false,
\* action = hard_block and the presence of a non-empty block_reason are
\* equivalent.
C6_BlockConsistency ==
  \A r \in AllResults :
    /\ (r.allowed = FALSE) <=> (r.action = "hard_block")
    /\ (r.action = "hard_block")
         <=> (r.block_reason # Undefined /\ r.block_reason # "")

\* a block with no category to name (threshold 0, nothing matched)
C6_Witness ==
  /\ scResult # NoResult
  /\ scResult.action = "hard_block"
  /\ scResult.labels = <<>>
  /\ scResult.allowed = FALSE

ActionFor(score, threshold) ==
  IF NumGe(Num(score), threshold) THEN "hard_block"
  ELSE IF score >= NudgeLow THEN "nudge"
  ELSE "allow"

\* C7 as claimed: for content within the length limit the action follows
\* from the score and sync_threshold: hard_block iff score >= sync_threshold,
\* else nudge iff score >= 0.40, else allow.
C7_ActionByScore ==
  (Scored /\ WithinLimit)
    => scOutcome.result.action
         = ActionFor(scOutcome.result.risk_score, scConfig.sync_threshold)

\* C7 amended: the same for non-empty string content within the length limit
\* whose scoring does not raise.
C7_ActionByScoreNonEmpty ==
  (Scored /\ WithinLimit /\ scMessage.content.length >= 1 /\ ~scFault)
    => scOutcome.result.action
         = ActionFor(scOutcome.result.risk_score, scConfig.sync_threshold)

\* a positive score equal to the threshold, blocked
C7_Witness ==
  /\ Scored /\ WithinLimit /\ scMessage.content.length >= 1 /\ ~scFault
  /\ scOutcome.result.risk_score > 0
  /\ Num(scOutcome.result.risk_score) = scConfig.sync_threshold
  /\ scOutcome.result.action = "hard_block"

\* C8: under the default configuration a message that matches only phone or
\* only email, whatever the match count, scores at least 0.65 and is
\* hard-blocked.
C8_PhoneOrEmailBlocks ==
  (Scored /\ scConfig = DefaultConfig /\ ~scFault
     /\ (OnlyCategory("phone") \/ OnlyCategory("email")))
    => /\ scOutcome.result.risk_score >= DefaultSyncThreshold
       /\ scOutcome.result.action = "hard_block"
       /\ scOutcome.result.allowed = FALSE

C8_Witness ==
  /\ Scored /\ scConfig = DefaultConfig /\ ~scFault
  /\ OnlyCategory("email")
  /\ scMessage.content.hits["email"] = 1
  /\ scOutcome.result.action = "hard_block"

\* C9 as claimed: under the default configuration a message that matches
\* only url or only social scores in [0.40, 0.65) and gets action nudge with
\* a nudge_message.
C9_UrlOrSocialNudges ==
  (Scored /\ scConfig = DefaultConfig /\ ~scFault
     /\ (OnlyCategory("url") \/ OnlyCategory("social")))
    => /\ scOutcome.result.risk_score >= NudgeLow
       /\ scOutcome.result.risk_score < NudgeHigh
       /\ scOutcome.result.action = "nudge"
       /\ scOutcome.result.nudge_message # Undefined

\* C10: risk_score lies in [0, 1] in every result, those of the length gate
\* and of the dispatcher included.
C10_ScoreInRange ==
  \A r \in AllResults : r.risk_score >= 0 /\ r.risk_score <= ScoreScale

\* a score brought down to 1.0 by the cap: all five categories matched
C10_Witness ==
  /\ Scored
  /\ Len(scOutcome.result.labels) = 5
  /\ scOutcome.result.risk_score = ScoreScale

\* the content is a non-empty string and the configuration is valid
ScannableContent ==
  /\ scConfig # ConfigError
  /\ scMessage.content.kind = "string"
  /\ scMessage.content.length >= 1

TooLong == NumGt(Num(scMessage.content.length), scConfig.max_message_length)

\* C11: content longer than max_message_length is hard-blocked with score
\* 1.0, labels exactly [message_too_long] and a block_reason, whether or not
\* the scan would raise (it is not run); content not longer than the limit,
\* the limit itself included, is not length-gated: it gets the score and the
\* labels of its pattern matches.
C11_LengthGate ==
  (Scored /\ ScannableContent) =>
    IF TooLong
    THEN /\ ~scOutcome.caught
         /\ scOutcome.result.action = "hard_block"
         /\ scOutcome.result.allowed = FALSE
         /\ scOutcome.result.risk_score = ScoreScale
         /\ scOutcome.result.labels = <<"message_too_long">>
         /\ scOutcome.result.block_reason # Undefined
         /\ scOutcome.result.block_reason # ""
    ELSE /\ ~HasLabel(scOutcome.result, "message_too_long")
         /\ ~scFault =>
              /\ scOutcome.result.risk_score
                   = calculateRiskScore(scanPatterns(scMessage.content))
              /\ scOutcome.result.labels
                   = generateLabels(scanPatterns(scMessage.content))

\* content one character over the limit, with a phone number in it and a scan
\* that would raise, is length-gated
C11_Witness ==
  /\ Scored /\ ScannableContent /\ scFault
  /\ scConfig.max_message_length = Num(MaxLen)
  /\ scMessage.content.length = MaxLen + 1
  /\ scMessage.content.hits["phone"] >= 1
  /\ scOutcome.result.labels = <<"message_too_long">>

\* C12 as claimed: for missing, non-string or empty content interceptMessage
\* never raises and returns allowed = true, action allow, risk_score 0 and no
\* labels.
C12_MalformedAllowed ==
  (scOutcome # NoOutcome
     /\ (scMessage.content.kind # "string" \/ scMessage.content.length = 0))
    => /\ scOutcome.kind = "value"
       /\ ~scOutcome.caught
       /\ scOutcome.result.allowed = TRUE
       /\ scOutcome.result.action = "allow"
       /\ scOutcome.result.risk_score = 0
       /\ scOutcome.result.labels = <<>>

\* the content is scanned and matches category c at least once
Matches(c) ==
  /\ scMessage.content.kind = "string"
  /\ scMessage.content.length >= 1
  /\ scMessage.content.hits[c] >= 1

\* C35 as claimed: under the default configuration every message that
\* matches both url and social, whatever the counts, scores at least 0.65 and
\* is hard-blocked.
C35_UrlAndSocialBlock ==
  (Scored /\ scConfig = DefaultConfig /\ ~scFault
     /\ Matches("url") /\ Matches("social"))
    => /\ scOutcome.result.risk_score >= DefaultSyncThreshold
       /\ scOutcome.result.action = "hard_block"
       /\ scOutcome.result.allowed = FALSE

\* C36: under the default configuration no result with action nudge carries
\* the label contact_info_phone or contact_info_email or the
\* contact-information nudge text, and a scanned message that matches phone
\* or email, alone or with other categories, is hard-blocked.
C36_NoContactNudge ==
  scConfig = DefaultConfig
    => /\ \A r \in AllResults :
            r.action = "nudge"
              => /\ ~HasLabel(r, "contact_info_phone")
                 /\ ~HasLabel(r, "contact_info_email")
                 /\ r.nudge_message # NudgeContact
       /\ (Scored /\ ~scFault /\ (Matches("phone") \/ Matches("email")))
            => /\ scOutcome.result.action = "hard_block"
               /\ scOutcome.result.nudge_message = Undefined

\* one email match together with url and social matches, blocked
C36_Witness ==
  /\ Scored /\ scConfig = DefaultConfig /\ ~scFault
  /\ Matches("email") /\ Matches("url") /\ Matches("social")
  /\ scMessage.content.hits["email"] = 1
  /\ scMessage.content.hits["phone"] = 0
  /\ HasLabel(scOutcome.result, "contact_info_email")
  /\ scOutcome.result.action = "hard_block"

(* ---------------------------------------------------------------------- *)
(* Properties of the circuit breaker (SpecBreaker)                         *)
(* ---------------------------------------------------------------------- *)
\* the step is a call of execute; the call it adds
ExecuteStep == Len(calls') = Len(calls) + 1
NewCall == calls'[Len(calls')]

\* the step is the return of call c, whose operation resolved / threw
ReturnStep(c) == calls[c].pc = "running" /\ calls'[c].pc = "returned"
SuccessStep(c) == ReturnStep(c) /\ calls[c].op.kind = "value"
FailureStep(c) == ReturnStep(c) /\ calls[c].op.kind = "throw"

ResetStep == resets' = resets + 1

\* the breaker is OPEN and resetTimeout has not elapsed since lastFailureTime
CoolingDown ==
  /\ circuitBreaker.state = OPEN
  /\ NumLt(Num(now - circuitBreaker.lastFailureTime),
           circuitBreaker.config.resetTimeout)

\* the breaker is OPEN and resetTimeout has elapsed since lastFailureTime
CooledDown ==
  /\ circuitBreaker.state = OPEN
  /\ NumGe(Num(now - circuitBreaker.lastFailureTime),
           circuitBreaker.config.resetTimeout)

\* C13: a CLOSED breaker has recorded fewer than threshold failures in a row;
\* a failure recorded in CLOSED opens the breaker exactly when it is the
\* threshold-th in a row, a success recorded in CLOSED leaves it CLOSED with
\* failureCount 0, and nothing else takes the breaker from CLOSED to OPEN.
C13_OpensAtThreshold ==
  [][/\ circuitBreaker.state = CLOSED
          => streak.failures < circuitBreaker.config.threshold.v
     /\ \A c \in DOMAIN calls :
          /\ (FailureStep(c) /\ circuitBreaker.state = CLOSED)
               => /\ circuitBreaker'.state \in {CLOSED, OPEN}
                  /\ circuitBreaker'.state = OPEN
                       <=> streak'.failures = circuitBreaker.config.threshold.v
          /\ (SuccessStep(c) /\ circuitBreaker.state = CLOSED)
               => /\ circuitBreaker'.state = CLOSED
                  /\ circuitBreaker'.failureCount = 0
     /\ (circuitBreaker.state = CLOSED /\ circuitBreaker'.state = OPEN)
          => \E c \in DOMAIN calls : FailureStep(c)]_vars

\* threshold 2: failure, success, failure, failure; the breaker opened at the
\* last one
C13_Witness ==
  /\ circuitBreaker.config.threshold = Num(2)
  /\ resets = 0
  /\ circuitBreaker.state = OPEN
  /\ circuitBreaker.failureCount = 2
  /\ Cardinality({c \in DOMAIN calls : calls[c].returned.kind = "throw"}) = 3
  /\ Cardinality({c \in DOMAIN calls : calls[c].returned.kind = "value"}) = 1

\* C14: an execute call made while the breaker is OPEN and less than
\* resetTimeout has elapsed since lastFailureTime returns the sentinel
\* without calling the operation and leaves the breaker as it was.
C14_OpenFailsFast ==
  [][(ExecuteStep /\ CoolingDown)
       => /\ NewCall.pc = "returned"
          /\ NewCall.returned = FailedFast
          /\ circuitBreaker' = circuitBreaker]_vars

\* a call that found the breaker OPEN again, cooling down after a failed
\* probe, and got the sentinel
C14_Witness ==
  \E c \in DOMAIN calls :
    /\ calls[c].arrival.state = OPEN
    /\ calls[c].arrival.timeSinceFailure = 0
    /\ circuitBreaker.lastFailureTime = TickMs
    /\ calls[c].returned = FailedFast
    /\ circuitBreaker.state = OPEN

\* C15: the execute call that finds the breaker OPEN with resetTimeout
\* elapsed moves it to HALF_OPEN with successCount 0 and calls the operation;
\* in HALF_OPEN a recorded success closes the breaker, with failureCount and
\* successCount 0, exactly when it is the halfOpenMaxAttempts-th success in a
\* row since HALF_OPEN was entered, and a recorded failure reopens it.
C15_HalfOpenProbe ==
  [][/\ (ExecuteStep /\ CooledDown)
          => /\ circuitBreaker'.state = HALF_OPEN
             /\ circuitBreaker'.successCount = 0
             /\ NewCall.pc = "running"
     /\ \A c \in DOMAIN calls :
          /\ (SuccessStep(c) /\ circuitBreaker.state = HALF_OPEN)
               => IF streak'.successes = circuitBreaker.config.halfOpenMaxAttempts
                  THEN /\ circuitBreaker'.state = CLOSED
                       /\ circuitBreaker'.failureCount = 0
                       /\ circuitBreaker'.successCount = 0
                  ELSE /\ circuitBreaker'.state = HALF_OPEN
                       /\ streak'.successes
                            < circuitBreaker.config.halfOpenMaxAttempts
          /\ (FailureStep(c) /\ circuitBreaker.state = HALF_OPEN)
               => circuitBreaker'.state = OPEN]_vars

\* halfOpenMaxAttempts 2: two probes succeeded and the breaker closed
C15_Witness ==
  /\ circuitBreaker.config.halfOpenMaxAttempts = 2
  /\ resets = 0
  /\ circuitBreaker.state = CLOSED
  /\ circuitBreaker.failureCount = 0
  /\ circuitBreaker.successCount = 0
  /\ Cardinality({c \in DOMAIN calls :
                    calls[c].probe /\ calls[c].returned.kind = "value"}) = 2

\* the calls whose operation was called while the breaker was HALF_OPEN and
\* has not settled
ProbesInFlight == {c \in DOMAIN calls : calls[c].probe /\ calls[c].pc = "running"}

\* C16 as claimed: while the breaker is HALF_OPEN at most halfOpenMaxAttempts
\* invocations of the operation are in flight.
C16_HalfOpenConcurrency ==
  circuitBreaker.state = HALF_OPEN
    => Cardinality(ProbesInFlight) <= circuitBreaker.config.halfOpenMaxAttempts

\* C17: when the operation throws, execute counts the failure, stamps
\* lastFailureTime, applies the state transition and throws the same error to
\* its caller.
C17_FailureRecordedAndRethrown ==
  [][\A c \in DOMAIN calls :
       FailureStep(c)
         => /\ circuitBreaker'.failureCount = circuitBreaker.failureCount + 1
            /\ circuitBreaker'.lastFailureTime = now
            /\ circuitBreaker'.state =
                 (IF circuitBreaker.state = HALF_OPEN THEN OPEN
                  ELSE IF circuitBreaker.state = CLOSED
                          /\ circuitBreaker.failureCount + 1
                               >= circuitBreaker.config.threshold.v
                    THEN OPEN
                  ELSE circuitBreaker.state)
            /\ calls'[c].returned.kind = "throw"
            /\ calls'[c].returned.error = calls[c].op.error]_vars

\* a probe threw at time TickMs: the breaker reopened and the caller got the
\* error
C17_Witness ==
  \E c \in DOMAIN calls :
    /\ calls[c].probe
    /\ calls[c].returned = Rejects("E1")
    /\ circuitBreaker.state = OPEN
    /\ circuitBreaker.lastFailureTime = TickMs

\* C18: reset() leaves the breaker CLOSED with failureCount, successCount and
\* lastFailureTime 0 whatever its state was, and the execute call that
\* follows calls the operation.
C18_ResetCloses ==
  [][/\ ResetStep
          => /\ circuitBreaker'.state = CLOSED
             /\ circuitBreaker'.failureCount = 0
             /\ circuitBreaker'.successCount = 0
             /\ circuitBreaker'.lastFailureTime = 0
     /\ (ExecuteStep /\ lastOp.op = "reset") => NewCall.pc = "running"]_vars

\* reset() was called on an OPEN breaker and the next call ran its operation
C18_Witness ==
  \E c \in DOMAIN calls :
    /\ calls[c].after = [op |-> "reset", from |-> OPEN]
    /\ calls[c].arrival.state = CLOSED
    /\ calls[c].returned.kind \in {"none", "value", "throw"}

\* C29 as claimed: the breaker leaves HALF_OPEN, to CLOSED or to OPEN, only
\* on the outcome of a call that was admitted while it was HALF_OPEN.
C29_ProbeOutcomesOnly ==
  [][(circuitBreaker.state = HALF_OPEN /\ circuitBreaker'.state # HALF_OPEN
        /\ ~ResetStep)
       => \E c \in DOMAIN calls : ReturnStep(c) /\ calls[c].probe]_vars

\* C30: successCount stays below halfOpenMaxAttempts in every state, and an
\* execute call returns the sentinel only when it finds the breaker OPEN with
\* the cooldown not elapsed.
C30_SentinelOnlyWhileCooling ==
  [][/\ circuitBreaker.successCount < circuitBreaker.config.halfOpenMaxAttempts
     /\ circuitBreaker'.successCount < circuitBreaker.config.halfOpenMaxAttempts
     /\ (ExecuteStep /\ NewCall.returned = FailedFast) => CoolingDown
     /\ (ExecuteStep /\ circuitBreaker.state = HALF_OPEN)
          => NewCall.pc = "running"]_vars

\* halfOpenMaxAttempts 2: one probe has succeeded and a call made after it is
\* admitted in HALF_OPEN
C30_Witness ==
  /\ circuitBreaker.config.halfOpenMaxAttempts = 2
  /\ circuitBreaker.state = HALF_OPEN
  /\ circuitBreaker.successCount = 1
  /\ \E c \in DOMAIN calls :
       /\ calls[c].arrival.state = HALF_OPEN
       /\ calls[c].after = [op |-> "settle", from |-> HALF_OPEN]
       /\ calls[c].pc = "running"

\* C31: whenever the breaker is CLOSED, failureCount is below the threshold,
\* whatever successes, failures and reset() calls came before.
C31_ClosedBelowThreshold ==
  circuitBreaker.state = CLOSED
    => NumLt(Num(circuitBreaker.failureCount), circuitBreaker.config.threshold)

\* threshold 2: the breaker was reset, and a failure has since been recorded
\* in CLOSED while another call is still running
C31_Witness ==
  /\ circuitBreaker.state = CLOSED
  /\ circuitBreaker.config.threshold = Num(2)
  /\ circuitBreaker.failureCount = 1
  /\ resets = 1
  /\ lastOp = [op |-> "settle", from |-> CLOSED]
  /\ \E c \in DOMAIN calls :
       calls[c].pc = "running" /\ calls[c].arrival.state # CLOSED

\* C32: the state changes only from CLOSED to OPEN on a failure that reaches
\* the threshold, from OPEN to HALF_OPEN on a call after the cooldown, from
\* HALF_OPEN to CLOSED on a success, from HALF_OPEN to OPEN on a failure, and
\* from any state to CLOSED by reset().
C32_Transitions ==
  [][circuitBreaker'.state # circuitBreaker.state
       => \/ ResetStep /\ circuitBreaker'.state = CLOSED
          \/ /\ circuitBreaker.state = CLOSED
             /\ circuitBreaker'.state = OPEN
             /\ \E c \in DOMAIN calls : FailureStep(c)
             /\ NumGe(Num(circuitBreaker'.failureCount),
                      circuitBreaker.config.threshold)
          \/ /\ circuitBreaker.state = OPEN
             /\ circuitBreaker'.state = HALF_OPEN
             /\ ExecuteStep
             /\ CooledDown
          \/ /\ circuitBreaker.state = HALF_OPEN
             /\ circuitBreaker'.state = CLOSED
             /\ \E c \in DOMAIN calls : SuccessStep(c)
          \/ /\ circuitBreaker.state = HALF_OPEN
             /\ circuitBreaker'.state = OPEN
             /\ \E c \in DOMAIN calls : FailureStep(c)]_vars

\* without reset(), the breaker has gone CLOSED, OPEN, HALF_OPEN and is
\* CLOSED again
C32_Witness ==
  /\ circuitBreaker.state = CLOSED
  /\ resets = 0
  /\ lastOp = [op |-> "settle", from |-> HALF_OPEN]
  /\ \E c \in DOMAIN calls :
       /\ calls[c].arrival.state = OPEN
       /\ calls[c].probe
       /\ calls[c].returned.kind = "value"

\* no call that is running will fail
AllSucceed ==
  \A c \in DOMAIN calls : calls[c].pc = "running" => calls[c].op.kind = "value"

\* C33: when calls keep arriving, time keeps advancing and from some point on
\* the operation always succeeds, an OPEN breaker returns to CLOSED, the
\* breaker ends up CLOSED for good, and a CLOSED breaker calls the operation
\* on every call.
C33_Recovery ==
  /\ (<>[]AllSucceed)
       => /\ (circuitBreaker.state = OPEN) ~> (circuitBreaker.state = CLOSED)
          /\ <>[](circuitBreaker.state = CLOSED)
  /\ [][(ExecuteStep /\ circuitBreaker.state = CLOSED)
          => NewCall.pc = "running"]_vars

\* halfOpenMaxAttempts 2, no reset(): the breaker opened, two successes in
\* HALF_OPEN closed it, and the call made since is running
C33_Witness ==
  /\ circuitBreaker.state = CLOSED
  /\ circuitBreaker.config.halfOpenMaxAttempts = 2
  /\ resets = 0
  /\ \E c \in DOMAIN calls :
       /\ calls[c].pc = "running"
       /\ calls[c].arrival.state = CLOSED
       /\ calls[c].after = [op |-> "settle", from |-> HALF_OPEN]

(* ---------------------------------------------------------------------- *)
(* Properties of the log emitter (SpecAssembled, FairAssembled)            *)
(* ---------------------------------------------------------------------- *)
InStream(h) == \E j \in DOMAIN stream : stream[j].frame = h

\* C21 as claimed: every event handed to emitAsync is eventually appended to
\* the cis:messages stream, whatever the connection state when it was handed
\* over.
C21_AtLeastOnce ==
  \A h \in 1..MaxFrames : (EmitCallsFor(h) # {}) ~> InStream(h)

\* the step is handleMessage of frame h resuming after execute
ResumeStep(h) == handlers[h].pc = "resume" /\ handlers'[h].pc = "done"

Pending(h) == \E ev \in pending : ev.frame = h

\* C22: handleMessage sends the intercept_result in the step that hands the
\* event to the emitter, before the append has completed and with the XADD
\* still outstanding when emit issued one; the later outcome of the append
\* changes neither the frames sent, the handlers nor the breaker, and no emit
\* promise is ever rejected.
C22_ResponseDoesNotWait ==
  [][/\ \A h \in DOMAIN handlers :
          ResumeStep(h)
            => /\ Len(sent') = Len(sent) + 1
               /\ sent'[Len(sent')].frame = h
               /\ sent'[Len(sent')].type = "intercept_result"
               /\ ~(\E j \in DOMAIN stream' : stream'[j].frame = h)
               /\ emitCalls'[Len(emitCalls')].frame = h
               /\ emitCalls'[Len(emitCalls')].xadd
                    => \E ev \in pending' : ev.frame = h
     /\ (\E ev \in pending : ev \notin pending')
          => UNCHANGED <<sent, handlers, circuitBreaker>>
     /\ \A i \in DOMAIN emitCalls' : emitCalls'[i].promise # "rejected"]_vars

\* one frame answered although its append failed, another answered while
\* its append is outstanding
C22_Witness ==
  /\ \E h \in DOMAIN handlers : \E i \in EmitCallsFor(h) :
       /\ Cardinality(ResponsesTo(h)) = 1
       /\ emitCalls[i].xadd
       /\ emitCalls[i].promise = "fulfilled"
       /\ ~InStream(h)
  /\ \E h \in DOMAIN handlers : \E i \in EmitCallsFor(h) :
       /\ Cardinality(ResponsesTo(h)) = 1
       /\ emitCalls[i].promise = "pending"
       /\ Pending(h)

\* C23: the promise of emit is never rejected; a call made while the emitter
\* is not connected issues no XADD and is fulfilled at once; an XADD is issued
\* only by the emit call of a handler, once, so an event that was skipped or
\* whose XADD failed is never attempted again.
C23_EmitNeverRejects ==
  [][/\ \A i \in DOMAIN emitCalls' : emitCalls'[i].promise # "rejected"
     /\ \A h \in DOMAIN handlers :
          (ResumeStep(h) /\ ~connected)
            => /\ pending' = pending
               /\ stream' = stream
               /\ Len(emitCalls') = Len(emitCalls) + 1
               /\ ~emitCalls'[Len(emitCalls')].xadd
               /\ emitCalls'[Len(emitCalls')].promise = "fulfilled"
     /\ ~(pending' \subseteq pending)
          => \E h \in DOMAIN handlers :
               /\ ResumeStep(h)
               /\ connected
               /\ ~Pending(h)
               /\ ~InStream(h)
               /\ \E ev \in pending' : ev.frame = h /\ pending' = pending \cup {ev}
     /\ stream' # stream
          => \E ev \in pending :
               stream' = Append(stream, ev) /\ pending' = pending \ {ev}]_vars

\* an event skipped because the emitter was not connected and an event whose
\* XADD failed: both emit calls returned, neither event is in the stream or
\* outstanding
C23_Witness ==
  /\ \E h \in DOMAIN handlers : \E i \in EmitCallsFor(h) :
       /\ ~emitCalls[i].xadd
       /\ emitCalls[i].promise = "fulfilled"
       /\ ~InStream(h) /\ ~Pending(h)
  /\ \E h \in DOMAIN handlers : \E i \in EmitCallsFor(h) :
       /\ emitCalls[i].xadd
       /\ emitCalls[i].promise = "fulfilled"
       /\ ~InStream(h) /\ ~Pending(h)

(* ---------------------------------------------------------------------- *)
(* Properties of the dispatcher (SpecAssembled)                            *)
(* ---------------------------------------------------------------------- *)
\* C24: a frame that fails validation is answered, in the step that receives
\* it, with exactly one error frame with error = processing_error and nothing
\* is handed to the emitter for it: unparseable text gets the message
\* 'Internal server error' and no request_id; a frame of another type, or
\* without message content, gets the request_id of the request.
C24_MalformedGetsError ==
  \A h \in DOMAIN handlers :
    ~Valid(handlers[h].request) =>
      /\ handlers[h].pc = "done"
      /\ Cardinality(ResponsesTo(h)) = 1
      /\ EmitCallsFor(h) = {}
      /\ Answer(h).type = "error"
      /\ Answer(h).error = "processing_error"
      /\ IF ~handlers[h].request.parses
         THEN /\ Answer(h).message = "Internal server error"
              /\ Answer(h).request_id = Undefined
         ELSE /\ Answer(h).request_id = handlers[h].request.request_id
              /\ Answer(h).message
                   = (IF handlers[h].request.type # "intercept"
                      THEN "Invalid request type" ELSE "Missing message content")

\* unparseable text and an intercept frame with empty content and request_id
\* r3, both answered
C24_Witness ==
  /\ \E h \in DOMAIN handlers :
       /\ ~handlers[h].request.parses
       /\ Answer(h).message = "Internal server error"
  /\ \E h \in DOMAIN handlers :
       /\ handlers[h].request.type = "intercept"
       /\ handlers[h].request.hasMessage
       /\ Answer(h).type = "error"
       /\ Answer(h).request_id = "r3"

\* C25 as claimed: the intercept_result carries the request_id of the request
\* whenever the request has one, and a minted identifier only when it has
\* none.
C25_RequestIdEchoed ==
  \A h \in DOMAIN handlers :
    (Valid(handlers[h].request) /\ handlers[h].pc = "done")
      => Answer(h).request_id
           = (IF handlers[h].request.request_id # Undefined
              THEN handlers[h].request.request_id ELSE uuidv4(h))

(* ---------------------------------------------------------------------- *)
(* Properties of the health endpoint (SpecHealth)                          *)
(* ---------------------------------------------------------------------- *)
\* C26: GET /health answers 200 'healthy' exactly when the WebSocket server
\* field is set and the breaker is CLOSED or HALF_OPEN, and 503 'unhealthy'
\* otherwise; the body reports the breaker state and whether the log backend
\* is connected, and that connection does not enter the status.
C26_HealthStatus ==
  [][health' # health
       => /\ health'.status
               = (IF wss /\ circuitBreaker.state \in {CLOSED, HALF_OPEN}
                  THEN 200 ELSE 503)
          /\ health'.text = (IF health'.status = 200 THEN "healthy" ELSE "unhealthy")
          /\ health'.websocket = (IF wss THEN "ok" ELSE "down")
          /\ health'.circuit_breaker = circuitBreaker.state
          /\ health'.redis
               = (IF connected /\ emitter.redis # "null"
                  THEN "connected" ELSE "disconnected")]_vars

\* healthy with the breaker probing and the log backend disconnected
C26_Witness ==
  /\ health.status = 200
  /\ health.circuit_breaker = HALF_OPEN
  /\ health.redis = "disconnected"
  /\ health.websocket = "ok"

(* ---------------------------------------------------------------------- *)
(* Properties of the configuration loader (SpecConfig)                     *)
(* ---------------------------------------------------------------------- *)
\* the variable is set to text that is not a number, or to a number outside
\* lo..hi
OutOfRange(x, lo, hi) == x.set /\ (x.num.nan \/ x.num.v < lo \/ x.num.v > hi)
BelowMinimum(x, lo) == x.set /\ (x.num.nan \/ x.num.v < lo)

InvalidTunable(e) ==
  \/ OutOfRange(e.SYNC_THRESHOLD, 0, ScoreScale)
  \/ BelowMinimum(e.MAX_MESSAGE_LENGTH, 1)
  \/ BelowMinimum(e.CIRCUIT_BREAKER_THRESHOLD, 1)
  \/ BelowMinimum(e.CIRCUIT_BREAKER_RESET_MS, MinBreakerResetMs)

\* C27 as claimed: when a tunable is invalid (out of its range, or text that
\* does not parse as a number) getConfig throws and caches nothing.
C27_InvalidRejected ==
  (loaded # NotLoaded /\ InvalidTunable(env))
    => (loaded = ConfigError /\ cachedConfig = NoConfig)

(* ---------------------------------------------------------------------- *)
(* The breaker of the assembled service (SpecAssembled)                    *)
(* ---------------------------------------------------------------------- *)
\* C28: in the started service every call of interceptMessage resolves with
\* a value, so the breaker of the dispatcher stays CLOSED with failureCount
\* 0, every call is admitted and no response carries circuit_breaker_open.
C28_OperationNeverFails ==
  /\ circuitBreaker.state = CLOSED
  /\ circuitBreaker.failureCount = 0
  /\ \A h \in DOMAIN handlers :
       Valid(handlers[h].request) => handlers[h].outcome.kind = "value"
  /\ \A i \in DOMAIN sent :
       sent[i].type = "intercept_result"
         => ~HasLabel(sent[i].result, "circuit_breaker_open")

\* two frames whose scan raised have been answered; the breaker is CLOSED
C28_Witness ==
  /\ Len(handlers) = MaxFrames
  /\ \A h \in DOMAIN handlers :
       /\ handlers[h].outcome.caught
       /\ handlers[h].pc = "done"
       /\ HasLabel(Answer(h).result, "interceptor_error")
  /\ circuitBreaker.state = CLOSED

\* C37: a call of getConfig with a cached record returns that record and
\* leaves the cache, whatever the environment is now; a call with no cached
\* record (the first, or the first after resetConfig) loads the environment
\* as it is at that moment; changing the environment touches neither the
\* cache nor a record already returned.
C37_CachedUntilReset ==
  [][/\ (env' = env /\ cachedConfig.cached /\ cachedConfig'.cached)
          => /\ cachedConfig' = cachedConfig
             /\ loaded' = cachedConfig.config
     /\ (env' = env /\ ~cachedConfig.cached)
          => /\ loaded' = loadConfig(env)
             /\ cachedConfig' = IF loadConfig(env) = ConfigError THEN NoConfig
                                ELSE Cached(loadConfig(env))
     /\ env' # env => UNCHANGED <<cachedConfig, loaded>>
     /\ cachedConfig'.cached => cachedConfig'.config # ConfigError]_vars

\* the record returned is the cached one although the environment has since
\* become one that loadConfig rejects
C37_Witness ==
  /\ cachedConfig.cached
  /\ loaded = cachedConfig.config
  /\ loaded.sync_threshold = Num(0)
  /\ env.SYNC_THRESHOLD = InvalidSyncThreshold
  /\ loadConfig(env) = ConfigError

(* ---------------------------------------------------------------------- *)
(* Properties of the emitter's disconnect (SpecEmitter) and of shutdown    *)
(* (FairShutdown)                                                          *)
(* ---------------------------------------------------------------------- *)
\* a disconnect() call has completed
Disconnected ==
  \E i \in DOMAIN emitter.disconnects : emitter.disconnects[i] = "returned"

\* C38: once a disconnect() call has completed there is no pending reconnect
\* timer, isConnected() is false and stays false over any later connection
\* event, connect() is not run again and no XADD is issued.
C38_DisconnectIsFinal ==
  [][Disconnected
       => /\ ~emitter.reconnectTimer /\ ~emitter'.reconnectTimer
          /\ ~IsConnected /\ ~IsConnected'
          /\ emitter.redis = "null" /\ emitter'.redis = "null"
          /\ pending' \subseteq pending
          /\ \A i \in DOMAIN emitCalls' :
               i > Len(emitCalls) => ~emitCalls'[i].xadd]_vars

\* after disconnect() completed, a connection event of the old client has
\* set connected, and an emit call made then issued no XADD
C38_Witness ==
  /\ Disconnected
  /\ connected
  /\ ~IsConnected
  /\ Len(emitCalls) = MaxFrames
  /\ emitCalls[1].xadd
  /\ ~emitCalls[MaxFrames].xadd
  /\ stream # <<>>

\* C39: after a signal the process eventually exits; it exits only with
\* status 0, and only when both servers are closed and the emitter has no
\* client and no timer.
C39_ExitsZero ==
  /\ (Len(proc.shutdowns) > 0) ~> (proc.exited /\ proc.status = 0)
  /\ [](proc.exited
          => /\ proc.status = 0
             /\ wss = FALSE
             /\ httpServer = "closed"
             /\ emitter.redis = "null"
             /\ ~emitter.reconnectTimer)

\* the log backend was never reachable, a frame was answered without an
\* append, a second signal arrived while the first shutdown was waiting, and
\* the process has exited with status 0
C39_Witness ==
  /\ proc.exited
  /\ proc.status = 0
  /\ Len(proc.shutdowns) = MaxSignals
  /\ \E i \in DOMAIN emitter.disconnects : emitter.disconnects[i] = "quit"
  /\ stream = <<>>
  /\ emitCalls # <<>>
  /\ \A i \in DOMAIN emitCalls : ~emitCalls[i].xadd

====
